---- MODULE Spec2Model ----
(***************************************************************************)
(* State-machine model of quackcore's IntegrationRegistry                  *)
(* (src/quackcore/integrations/registry.py).                               *)
(*                                                                         *)
(* The registry table is a Python dict, modelled as the sequence of its    *)
(* values in insertion order (the key of a value is its name).  Every      *)
(* public operation is one action; the host environment (entry points,     *)
(* plugin loader, importable module) is chosen in Init and never changed   *)
(* by the registry.  SpecDiscover runs the registry against a list of      *)
(* entry points, SpecLoad against one module path, Spec against both;      *)
(* SpecRegistry registers instances and reads the table back.              *)
(*                                                                         *)
(* SpecLLM is the provider registry and service facade of                  *)
(* quackcore.integrations.llms, as tests/test_integrations/llms uses them. *)
(*                                                                         *)
(* SpecFiles is safe_copy, safe_move and safe_delete of                    *)
(* src/quackcore/fs/utils/safe_ops.py on a small file system; SpecConfig   *)
(* is load_config of src/quackcore/config/loader.py on one configuration   *)
(* file and one process environment.                                       *)
(***************************************************************************)
EXTENDS Integers, Sequences, FiniteSets, TLC

VARIABLES
    integrations,   \* self._integrations, values in insertion order
    entry_points,   \* entry_points(group="quackcore.integrations")
    plugin_loader,  \* TRUE iff quackcore.plugins.discovery.loader exists
    module,         \* what the host resolves the module path to
    last,           \* the call that has just returned (or raised)
    prev,           \* operation and returned names of the call before it
    calls,          \* the register calls made so far by RegisterInstance
    gen,            \* the object the last get_integration_by_type returned
    llm_registry,   \* _LLM_REGISTRY, lowercase provider name -> constructor
    llm_last,       \* the provider or service call that has just returned
    service,        \* one LLMIntegration service object
    fs,             \* the file system: existing path -> "dir" or file content
    fs_args,        \* the src and dst paths the caller works with
    fs_last,        \* the safe_ops call that has just returned (or raised)
    environ,        \* os.environ, in iteration order
    config_file,    \* the configuration file load_config is pointed at
    cfg_last,       \* the loader call that has just returned (or raised)
    threads,        \* where each of two threads stands inside register
    stores          \* the instances stored by line 65, in the order stored

vars ==
    <<integrations, entry_points, plugin_loader, module, last, prev,
      calls, gen, llm_registry, llm_last, service, fs, fs_args, fs_last,
      environ, config_file, cfg_last, threads, stores>>

\* ------------------------------------------------------------------ bounds
MaxEntries == 3     \* longest list of entry-point descriptors
MaxAttrs == 2       \* most public attributes of a scanned module
MaxCalls == 3       \* most register calls that RegisterInstance records
MaxPasses == 2      \* most iterations over one returned generator
MaxVars == 2        \* most variables in the process environment
MaxThreadCalls == 2 \* most register calls one thread makes

\* ----------------------------------------------------------------- objects
Absent == "<absent>"

Names == {"a", "b", "c"}

\* An object is what hasattr/callable can see of it, plus its identity.
MkObj(i, n, v, ini, av) ==
    [id |-> i, name |-> n, version |-> v, initialize |-> ini, is_available |-> av]

None == MkObj(0, Absent, Absent, Absent, Absent)

\* instances the caller builds and hands to register
RegA == MkObj(1, "a", "1.0", "callable", "callable")
RegB == MkObj(2, "b", "1.0", "callable", "callable")
\* instances built by factories, classes and the plugin loader
GoodA1 == MkObj(7, "a", "1.0", "callable", "callable")
GoodA2 == MkObj(8, "a", "1.0", "callable", "callable")
GoodB == MkObj(3, "b", "1.0", "callable", "callable")
\* all four attributes, but initialize is a plain value
NonCallC == MkObj(4, "c", "1.0", "value", "callable")
\* no version attribute
NoVersionA == MkObj(5, "a", Absent, "callable", "callable")
\* not even a name
NoName == MkObj(6, Absent, "1.0", "callable", "callable")

hasattr(o, f) == o[f] # Absent

callable(a) == a = "callable"

\* isinstance(x, IntegrationProtocol): the Capability Contract
IsIntegrationProtocol(o) ==
    /\ hasattr(o, "name")
    /\ hasattr(o, "version")
    /\ hasattr(o, "initialize")
    /\ hasattr(o, "is_available")
    /\ callable(o.initialize)
    /\ callable(o.is_available)

\* the explicit attribute probe of lines 366-371, 400-405 and 463-468
HasProtocolAttrsCallable(o) ==
    /\ hasattr(o, "name")
    /\ hasattr(o, "version")
    /\ hasattr(o, "initialize")
    /\ hasattr(o, "is_available")
    /\ callable(o.initialize)
    /\ callable(o.is_available)

\* the attribute probe of the TestIntegration special case, lines 438-441
HasProtocolAttrs(o) ==
    /\ hasattr(o, "name")
    /\ hasattr(o, "version")
    /\ hasattr(o, "initialize")
    /\ hasattr(o, "is_available")

\* ---------------------------------------------------------------- outcomes
\* What a call into foreign code does: return a value or raise.
Return(o) == [kind |-> "return", err |-> "", val |-> o]

Raise(e) == [kind |-> "raise", err |-> e, val |-> None]

\* RuntimeError stands for every Exception subclass that no except clause
\* of the registry names.
ErrorKinds == {"ImportError", "AttributeError", "TypeError", "ValueError", "RuntimeError"}

\* ------------------------------------------------------------- table access
Keys(tbl) == {tbl[i].name : i \in 1..Len(tbl)}

Lookup(tbl, n) ==
    IF n \in Keys(tbl)
    THEN tbl[CHOOSE i \in 1..Len(tbl) : tbl[i].name = n]
    ELSE None

RECURSIVE Remove(_, _)
Remove(tbl, n) ==
    IF tbl = <<>> THEN <<>>
    ELSE IF Head(tbl).name = n THEN Tail(tbl)
    ELSE <<Head(tbl)>> \o Remove(Tail(tbl), n)

\* ---------------------------------------------------------------- register
\* register without the membership test of line 59
\* a register that stores before it tests: the duplicate error comes with
\* the entry already replaced
register_stores_first(tbl, integration) ==
    IF ~hasattr(integration, "name")
    THEN [tbl |-> tbl, raised |-> "AttributeError"]
    ELSE IF integration.name \in Keys(tbl)
    THEN [tbl |-> [i \in 1..Len(tbl) |->
                      IF tbl[i].name = integration.name THEN integration
                      ELSE tbl[i]],
          raised |-> "QuackError"]
    ELSE [tbl |-> Append(tbl, integration), raised |-> "none"]

register_overwrite(tbl, integration) ==
    IF ~hasattr(integration, "name")
    THEN [tbl |-> tbl, raised |-> "AttributeError"]
    ELSE [tbl |-> Append(Remove(tbl, integration.name), integration), raised |-> "none"]

register(tbl, integration) ==
    IF ~hasattr(integration, "name")
    THEN [tbl |-> tbl, raised |-> "AttributeError"]
    ELSE IF integration.name \in Keys(tbl)
    THEN [tbl |-> tbl, raised |-> "QuackError"]
    ELSE [tbl |-> Append(tbl, integration), raised |-> "none"]

\* unregister that drops the oldest entry instead of the named one
unregister_oldest(tbl, name) ==
    IF name \in Keys(tbl)
    THEN [tbl |-> Tail(tbl), ret |-> TRUE]
    ELSE [tbl |-> tbl, ret |-> FALSE]

unregister(tbl, name) ==
    IF name \in Keys(tbl)
    THEN [tbl |-> Remove(tbl, name), ret |-> TRUE]
    ELSE [tbl |-> tbl, ret |-> FALSE]

is_registered(tbl, name) == name \in Keys(tbl)

get_integration(tbl, name) == Lookup(tbl, name)

\* a listing of the versions instead of the keys
list_integrations_versions(tbl) == [i \in 1..Len(tbl) |-> tbl[i].version]

list_integrations(tbl) == [i \in 1..Len(tbl) |-> tbl[i].name]

\* ------------------------------------------------- get_integration_by_type
\* The integration_type argument: a class, seen as the instances it has.
Types == {"object", "ServiceA", "ServiceB", "Unrelated"}

isinstance(o, T) ==
    CASE T = "object" -> TRUE
      [] T = "ServiceA" -> o.id \in {RegA.id, GoodA1.id, GoodA2.id, NoVersionA.id}
      [] T = "ServiceB" -> o.id \in {RegB.id, GoodB.id}
      [] OTHER -> FALSE

\* A generator object: the type it was called with, how often it has been
\* iterated, and what its first iteration saw and yielded.
MkGenerator(T, p, tbl, y) == [type |-> T, passes |-> p, at |-> tbl, first |-> y]

NoGenerator == MkGenerator("", 0, <<>>, <<>>)

\* a loop body without the isinstance test
generator_body_all(tbl, T) == tbl

\* lines 107-109: the loop over self._integrations.values()
generator_body(tbl, T) == SelectSeq(tbl, LAMBDA o : isinstance(o, T))

\* lines 97-109: the body has a yield, so the call runs none of it and
\* returns a suspended generator
get_integration_by_type(T) == MkGenerator(T, 0, <<>>, <<>>)

\* an iteration that runs the loop again on every pass
iterate_again(tbl, g) ==
    [ret |-> generator_body(tbl, g.type),
     gen |-> IF g.passes = 0
             THEN MkGenerator(g.type, 1, tbl, generator_body(tbl, g.type))
             ELSE [g EXCEPT !.passes = g.passes + 1]]

\* list(g) or a for loop over g, run to its end with no call in between:
\* the first pass runs the loop over the table as it is now and leaves the
\* generator finished, every later pass gets StopIteration at once
iterate(tbl, g) ==
    IF g.passes = 0
    THEN [ret |-> generator_body(tbl, g.type),
          gen |-> MkGenerator(g.type, 1, tbl, generator_body(tbl, g.type))]
    ELSE [ret |-> <<>>, gen |-> [g EXCEPT !.passes = g.passes + 1]]

\* ------------------------------------------------------------ entry points
\* An EntryPoint descriptor: what load_plugin(entry.value) does, what
\* entry.load() does ("raise", a plain "value", or a "callable" factory),
\* and what calling the factory does.
MkEntry(n, p, lk, le, f) ==
    [name |-> n, plugin |-> p, load |-> lk, load_err |-> le, factory |-> f]

Descriptors ==
    { MkEntry("good_a", Raise("ImportError"), "callable", "", Return(GoodA1)),
      MkEntry("plugin_b", Return(GoodB), "raise", "ImportError", Return(None)),
      MkEntry("nonconformant", Return(NoVersionA), "callable", "", Return(NonCallC)),
      MkEntry("raises", Raise("TypeError"), "callable", "", Raise("ValueError")),
      MkEntry("not_callable", Raise("AttributeError"), "value", "", Return(None)),
      MkEntry("other_a", Raise("RuntimeError"), "callable", "", Return(GoodA2)) }

RECURSIVE SeqsUpTo(_, _)
SeqsUpTo(S, n) ==
    IF n = 0 THEN {<<>>}
    ELSE LET shorter == SeqsUpTo(S, n - 1)
         IN shorter \cup {Append(q, x) : q \in shorter, x \in S}

EntryPointLists == SeqsUpTo(Descriptors, MaxEntries)

\* Result of a helper: the value it returns, or the error that leaves it.
Val(o) == [val |-> o, raised |-> "none"]

\* _load_integration_from_entry without the handlers of lines 337-346
_load_integration_from_entry_uncaught(entry, loader) ==
    IF /\ loader
       /\ entry.plugin.kind = "return"
       /\ IsIntegrationProtocol(entry.plugin.val)
    THEN Val(entry.plugin.val)
    ELSE IF /\ loader
            /\ entry.plugin.kind = "raise"
            /\ entry.plugin.err \notin {"ImportError", "AttributeError"}
    THEN [val |-> None, raised |-> entry.plugin.err]
    ELSE IF entry.load = "raise"
    THEN [val |-> None, raised |-> entry.load_err]
    ELSE IF entry.load # "callable"
    THEN Val(None)
    ELSE IF entry.factory.kind = "raise"
    THEN [val |-> None, raised |-> entry.factory.err]
    ELSE IF IsIntegrationProtocol(entry.factory.val)
    THEN Val(entry.factory.val)
    ELSE Val(None)

\* lines 302-347
_load_integration_from_entry(entry, loader) ==
    IF /\ loader
       /\ entry.plugin.kind = "return"
       /\ IsIntegrationProtocol(entry.plugin.val)
    THEN Val(entry.plugin.val)
    ELSE IF /\ loader
            /\ entry.plugin.kind = "raise"
            /\ entry.plugin.err \notin {"ImportError", "AttributeError"}
    THEN Val(None)                \* caught by the outer handlers, 339-346
    ELSE IF entry.load = "raise"
    THEN Val(None)                \* entry.load() raised, 337-346
    ELSE IF entry.load # "callable"
    THEN Val(None)                \* line 336
    ELSE IF entry.factory.kind = "raise"
    THEN Val(None)                \* factory() raised, 337-346
    ELSE IF IsIntegrationProtocol(entry.factory.val)
    THEN Val(entry.factory.val)
    ELSE Val(None)                \* line 332

\* the loop body without the try/except QuackError of lines 148-154
discover_step_uncaught(acc, entry, loader) ==
    IF acc.raised # "none" THEN acc
    ELSE LET r == _load_integration_from_entry(entry, loader)
             g == register(acc.tbl, r.val)
         IN IF r.raised # "none"
            THEN [acc EXCEPT !.raised = r.raised, !.n = @ + 1]
            ELSE IF r.val = None
            THEN [acc EXCEPT !.n = @ + 1]
            ELSE IF g.raised = "none"
            THEN [acc EXCEPT !.tbl = g.tbl, !.ret = Append(@, r.val), !.n = @ + 1]
            ELSE [acc EXCEPT !.raised = g.raised, !.n = @ + 1]

\* the loop body storing the instance itself instead of calling register
discover_step_overwrite(acc, entry, loader) ==
    IF acc.raised # "none" THEN acc
    ELSE LET r == _load_integration_from_entry(entry, loader)
             g == register_overwrite(acc.tbl, r.val)
         IN IF r.raised # "none"
            THEN [acc EXCEPT !.raised = r.raised, !.n = @ + 1]
            ELSE IF r.val = None
            THEN [acc EXCEPT !.n = @ + 1]
            ELSE [acc EXCEPT !.tbl = g.tbl, !.ret = Append(@, r.val), !.n = @ + 1]

\* one iteration of the loop of lines 145-154; acc.n counts the entries
\* handed to _load_integration_from_entry
discover_step(acc, entry, loader) ==
    IF acc.raised # "none" THEN acc
    ELSE LET r == _load_integration_from_entry(entry, loader)
             g == register(acc.tbl, r.val)
         IN IF r.raised # "none"
            THEN [acc EXCEPT !.raised = r.raised, !.n = @ + 1]
            ELSE IF r.val = None
            THEN [acc EXCEPT !.n = @ + 1]
            ELSE IF g.raised = "none"
            THEN [acc EXCEPT !.tbl = g.tbl, !.ret = Append(@, r.val), !.n = @ + 1]
            ELSE IF g.raised = "QuackError"
            THEN [acc EXCEPT !.n = @ + 1]      \* except QuackError, 151
            ELSE [acc EXCEPT !.raised = g.raised, !.n = @ + 1]

RECURSIVE discover_loop(_, _, _)
discover_loop(acc, entries, loader) ==
    IF entries = <<>> THEN acc
    ELSE discover_loop(discover_step(acc, Head(entries), loader), Tail(entries), loader)

\* lines 132-156
discover_integrations(tbl, entries, loader) ==
    discover_loop([tbl |-> tbl, ret |-> <<>>, raised |-> "none", n |-> 0],
                  entries, loader)

\* ------------------------------------------------------------------ module
\* A module attribute other than create_integration and TestIntegration:
\* a "private" name, a plain "value", or a "class"; for a class, whether
\* its __module__ is the scanned module, whether it is IntegrationProtocol
\* itself, and what calling it with no arguments does.
MkAttr(k, loc, proto, c) == [kind |-> k, local |-> loc, is_protocol |-> proto, ctor |-> c]

AttrKinds ==
    { MkAttr("class", TRUE, FALSE, Return(GoodA1)),
      MkAttr("class", TRUE, FALSE, Return(GoodB)),
      MkAttr("class", TRUE, FALSE, Raise("TypeError")),
      MkAttr("class", TRUE, FALSE, Return(NonCallC)),
      MkAttr("class", FALSE, FALSE, Return(GoodB)),
      MkAttr("class", TRUE, TRUE, Raise("TypeError")),
      MkAttr("private", TRUE, FALSE, Return(GoodA1)),
      MkAttr("value", FALSE, FALSE, Return(None)) }

\* module.create_integration: "absent", a plain "value", or a "callable"
Creates ==
    { [kind |-> "absent", call |-> Return(None)],
      [kind |-> "value", call |-> Return(None)],
      [kind |-> "callable", call |-> Raise("RuntimeError")],
      [kind |-> "callable", call |-> Return(GoodA2)],
      [kind |-> "callable", call |-> Return(NoVersionA)] }

\* module.TestIntegration: "absent", a plain "value", or a "class" that is
\* defined in the module (local) or bound there from another module
MkTest(k, loc, c) == [kind |-> k, local |-> loc, ctor |-> c]

Tests ==
    { MkTest("absent", FALSE, Return(None)),
      MkTest("value", FALSE, Return(None)),
      MkTest("class", TRUE, Raise("ValueError")),
      MkTest("class", TRUE, Return(NonCallC)),
      MkTest("class", TRUE, Return(GoodB)),
      MkTest("class", FALSE, Return(GoodA2)) }

\* what plugin_loader.load_plugin(module_path) does
PluginOutcomes ==
    {Return(GoodA1), Return(NonCallC), Raise("ImportError"), Raise("TypeError"),
     Raise("RuntimeError")}

\* module_path is in sys.modules ("cached"), imports ("imported"), or
\* import_module raises ImportError or some other Exception
Resolutions == {"cached", "imported", "ImportError", "Exception"}

Resolves(m) == m.resolution \in {"cached", "imported"}

MkModule(p, res, c, t, as) ==
    [plugin |-> p, resolution |-> res, create |-> c, test |-> t, attrs |-> as]

\* a module with nothing in it that is already in sys.modules
BareModule ==
    MkModule(Return(None), "cached", [kind |-> "absent", call |-> Return(None)],
             MkTest("absent", FALSE, Return(None)), <<>>)

\* 1 if the module defines the attribute, else 0
Defined(x) == IF x.kind = "absent" THEN 0 ELSE 1

\* every module content with at most MaxAttrs attributes
Contents ==
    UNION { { MkModule(Return(None), "cached", c, t, as) :
                  as \in SeqsUpTo(AttrKinds, MaxAttrs - Defined(c) - Defined(t)) } :
            c \in Creates, t \in Tests }

\* a module that does not resolve has no content
Modules ==
    { [m EXCEPT !.plugin = p, !.resolution = res] :
          m \in Contents, p \in PluginOutcomes \cup {Return(None)},
          res \in {"cached", "imported"} }
    \cup { [BareModule EXCEPT !.plugin = p, !.resolution = res] :
               p \in PluginOutcomes \cup {Return(None)},
               res \in Resolutions \ {"cached", "imported"} }

\* lines 349-379
_load_integration_with_plugin_loader(m, loader) ==
    IF ~loader THEN Val(None)
    ELSE IF m.plugin.kind = "raise"
    THEN IF m.plugin.err \in {"ImportError", "AttributeError", "TypeError", "ValueError"}
         THEN Val(None)
         ELSE [val |-> None, raised |-> m.plugin.err]
    ELSE IF HasProtocolAttrsCallable(m.plugin.val)
    THEN Val(m.plugin.val)
    ELSE Val(None)

\* lines 381-415
_load_integration_from_factory(m) ==
    IF m.create.kind # "callable" THEN Val(None)
    ELSE IF m.create.call.kind = "raise" THEN Val(None)
    ELSE IF HasProtocolAttrsCallable(m.create.call.val)
    THEN Val(m.create.call.val)
    ELSE Val(None)

\* lines 431-444
scan_test_integration(m) ==
    IF m.test.kind # "class" THEN <<>>
    ELSE IF m.test.ctor.kind = "raise" THEN <<>>
    ELSE IF HasProtocolAttrs(m.test.ctor.val)
    THEN <<m.test.ctor.val>>
    ELSE <<>>

\* a loop body that instantiates a class wherever it was defined
scan_attr_any_module(attr) ==
    IF attr.kind = "private" THEN <<>>
    ELSE IF ~(attr.kind = "class" /\ ~attr.is_protocol) THEN <<>>
    ELSE IF attr.ctor.kind = "raise" THEN <<>>
    ELSE IF HasProtocolAttrsCallable(attr.ctor.val)
    THEN <<attr.ctor.val>>
    ELSE <<>>

\* one iteration of the loop of lines 447-477
scan_attr(attr) ==
    IF attr.kind = "private" THEN <<>>
    ELSE IF ~(attr.kind = "class" /\ attr.local /\ ~attr.is_protocol) THEN <<>>
    ELSE IF attr.ctor.kind = "raise" THEN <<>>
    ELSE IF HasProtocolAttrsCallable(attr.ctor.val)
    THEN <<attr.ctor.val>>
    ELSE <<>>

RECURSIVE scan_attrs(_)
\* a scan that ends at the first attribute that gives no instance
scan_attrs_stops(as) ==
    IF as = <<>> THEN <<>>
    ELSE IF scan_attr(Head(as)) = <<>> THEN <<>>
    ELSE scan_attr(Head(as)) \o scan_attrs(Tail(as))

scan_attrs(as) ==
    IF as = <<>> THEN <<>> ELSE scan_attr(Head(as)) \o scan_attrs(Tail(as))

\* the scan returning as soon as it has one instance
_load_integrations_from_module_first(m) ==
    LET found == scan_test_integration(m) \o scan_attrs(m.attrs)
    IN IF found = <<>> THEN <<>> ELSE <<Head(found)>>

\* lines 417-479
_load_integrations_from_module(m) == scan_test_integration(m) \o scan_attrs(m.attrs)

\* a loop that returns the instance whether or not register took it
load_step_returns_all(acc, integ) ==
    IF acc.raised # "none" THEN acc
    ELSE LET g == register(acc.tbl, integ)
         IN IF g.raised = "none"
            THEN [acc EXCEPT !.tbl = g.tbl, !.ret = Append(@, integ)]
            ELSE IF g.raised = "QuackError"
            THEN [acc EXCEPT !.ret = Append(@, integ)]
            ELSE [acc EXCEPT !.raised = g.raised]

\* one iteration of the loop of lines 231-236
load_step(acc, integ) ==
    IF acc.raised # "none" THEN acc
    ELSE LET g == register(acc.tbl, integ)
         IN IF g.raised = "none"
            THEN [acc EXCEPT !.tbl = g.tbl, !.ret = Append(@, integ)]
            ELSE IF g.raised = "QuackError"
            THEN acc                           \* except QuackError, 235
            ELSE [acc EXCEPT !.raised = g.raised]

RECURSIVE load_loop(_, _)
load_loop(acc, integs) ==
    IF integs = <<>> THEN acc
    ELSE load_loop(load_step(acc, Head(integs)), Tail(integs))

\* Result of load_integration_module: the table, the returned list, the
\* error type that leaves the call, the type of its original_error, and the
\* strategies that ran.
Outcome(tbl, ret, raised, cause, steps) ==
    [tbl |-> tbl, ret |-> ret, raised |-> raised, cause |-> cause, steps |-> steps]

\* a resolved module whose factory instance is registered and whose classes
\* are scanned all the same
load_from_resolved_runs_on(tbl, m, steps) ==
    LET f == _load_integration_from_factory(m)
        g == register(tbl, f.val)
        start == IF f.val # None /\ g.raised = "none"
                 THEN [tbl |-> g.tbl, ret |-> <<f.val>>, raised |-> "none"]
                 ELSE [tbl |-> tbl, ret |-> <<>>, raised |-> "none"]
        scanned == load_loop(start, _load_integrations_from_module(m))
    IN IF f.val # None /\ g.raised \notin {"none", "QuackError"}
       THEN Outcome(tbl, <<>>, g.raised, "", steps \cup {"factory"})
       ELSE Outcome(scanned.tbl, scanned.ret, scanned.raised, "",
                    steps \cup {"factory", "scan"})

\* lines 217-241: the module resolved
load_from_resolved(tbl, m, steps) ==
    LET f == _load_integration_from_factory(m)
        g == register(tbl, f.val)
        scanned == load_loop([tbl |-> tbl, ret |-> <<>>, raised |-> "none"],
                             _load_integrations_from_module(m))
    IN IF f.val # None /\ g.raised = "none"
       THEN Outcome(g.tbl, <<f.val>>, "none", "", steps \cup {"factory"})
       ELSE IF f.val # None /\ g.raised # "QuackError"
       THEN Outcome(tbl, <<>>, g.raised, "", steps \cup {"factory"})
       ELSE Outcome(scanned.tbl, scanned.ret, scanned.raised, "",
                    steps \cup {"factory", "scan"})

\* module resolution that logs the import failure and returns nothing
resolve_module_swallows(tbl, m, steps) ==
    IF ~Resolves(m)
    THEN Outcome(tbl, <<>>, "none", "", steps \cup {"resolve"})
    ELSE load_from_resolved(tbl, m, steps \cup {"resolve"})

\* lines 189-215: module resolution
resolve_module(tbl, m, steps) ==
    IF m.resolution = "ImportError"
    \* the QuackError of line 203 is caught by line 208 and wrapped again
    THEN Outcome(tbl, <<>>, "QuackError", "QuackError", steps \cup {"resolve"})
    ELSE IF m.resolution = "Exception"
    THEN Outcome(tbl, <<>>, "QuackError", "Exception", steps \cup {"resolve"})
    ELSE load_from_resolved(tbl, m, steps \cup {"resolve"})

\* a chain that registers the plugin loader's object and goes on to the
\* module's own strategies
load_integration_module_runs_on(tbl, m, loader) ==
    LET p == _load_integration_with_plugin_loader(m, loader)
        g == register(tbl, p.val)
        steps == IF loader THEN {"plugin"} ELSE {}
        rest == resolve_module(g.tbl, m, steps)
    IN IF p.raised # "none"
       THEN Outcome(tbl, <<>>, p.raised, "", steps)
       ELSE IF p.val # None /\ g.raised = "none"
       THEN [rest EXCEPT !.ret = <<p.val>> \o @]
       ELSE IF p.val # None /\ g.raised # "QuackError"
       THEN Outcome(tbl, <<>>, g.raised, "", steps)
       ELSE resolve_module(tbl, m, steps)

\* lines 158-241
load_integration_module(tbl, m, loader) ==
    LET p == _load_integration_with_plugin_loader(m, loader)
        g == register(tbl, p.val)
        steps == IF loader THEN {"plugin"} ELSE {}
    IN IF p.raised # "none"
       THEN Outcome(tbl, <<>>, p.raised, "", steps)
       ELSE IF p.val # None /\ g.raised = "none"
       THEN Outcome(g.tbl, <<p.val>>, "none", "", steps)
       ELSE IF p.val # None /\ g.raised # "QuackError"
       THEN Outcome(tbl, <<>>, g.raised, "", steps)
       ELSE resolve_module(tbl, m, steps)

\* ------------------------------------------------------- provider registry
\* quackcore.integrations.llms.registry: _LLM_REGISTRY, register_llm_client
\* and get_llm_client, as described for the Provider Registry and as
\* tests/test_integrations/llms/test_registry.py calls them.

\* provider names as callers write them
ProviderNames == {"openai", "OpenAI", "MOCK", "TestClient", "unknown"}

\* str.lower left out
lower_identity(name) == name

\* str.lower on those names
lower(name) ==
    CASE name = "OpenAI" -> "openai"
      [] name = "MOCK" -> "mock"
      [] name = "TestClient" -> "testclient"
      [] OTHER -> name

Constructors == {"OpenAIClient", "AnthropicClient", "MockLLMClient", "TestClient"}

\* the registry the package is imported with
InitialRegistry ==
    [k \in {"openai", "anthropic", "mock"} |->
        CASE k = "openai" -> "OpenAIClient"
          [] k = "anthropic" -> "AnthropicClient"
          [] OTHER -> "MockLLMClient"]

\* construction options, passed through to the constructor as they are
Options == {"valid", "missing_credentials", "invalid_value"}

NoClient == [cls |-> "", options |-> ""]

\* calling a constructor: the mock client needs no credentials
Construct(ctor, options) ==
    IF options = "invalid_value"
    THEN Raise("ValueError")
    ELSE IF options = "missing_credentials" /\ ctor # "MockLLMClient"
    THEN Raise("KeyError")
    ELSE Return([cls |-> ctor, options |-> options])

\* a registration that keeps the constructor a name already has
register_llm_client_keep(reg, name, ctor) ==
    [k \in DOMAIN reg \cup {lower(name)} |->
        IF k \in DOMAIN reg THEN reg[k] ELSE ctor]

register_llm_client(reg, name, ctor) ==
    [k \in DOMAIN reg \cup {lower(name)} |->
        IF k = lower(name) THEN ctor ELSE reg[k]]

\* del _LLM_REGISTRY[key]
del_provider(reg, key) == [k \in DOMAIN reg \ {key} |-> reg[k]]

NoMessage == [provider |-> "", registered |-> {}]

Resolution(raised, cause, val, message, called) ==
    [raised |-> raised, cause |-> cause, val |-> val, message |-> message,
     called |-> called]

\* a lookup inside the guarded construction, so that a miss is wrapped too
get_llm_client_masked(reg, provider, options) ==
    LET key == lower(provider)
        c == Construct(reg[key], options)
    IN IF key \notin DOMAIN reg
       THEN Resolution("ProviderConstructionError", "KeyError", NoClient,
                       NoMessage, <<>>)
       ELSE IF c.kind = "raise"
       THEN Resolution("ProviderConstructionError", c.err, NoClient, NoMessage,
                       <<[ctor |-> reg[key], options |-> options]>>)
       ELSE Resolution("none", "", c.val, NoMessage,
                       <<[ctor |-> reg[key], options |-> options]>>)

\* a miss reported without the registered names
get_llm_client_terse(reg, provider, options) ==
    LET key == lower(provider)
        c == Construct(reg[key], options)
    IN IF key \notin DOMAIN reg
       THEN Resolution("UnsupportedProviderError", "", NoClient,
                       [provider |-> provider, registered |-> {}], <<>>)
       ELSE IF c.kind = "raise"
       THEN Resolution("ProviderConstructionError", c.err, NoClient, NoMessage,
                       <<[ctor |-> reg[key], options |-> options]>>)
       ELSE Resolution("none", "", c.val, NoMessage,
                       <<[ctor |-> reg[key], options |-> options]>>)

get_llm_client(reg, provider, options) ==
    LET key == lower(provider)
        c == Construct(reg[key], options)
    IN IF key \notin DOMAIN reg
       THEN Resolution("UnsupportedProviderError", "", NoClient,
                       [provider |-> provider, registered |-> DOMAIN reg], <<>>)
       ELSE IF c.kind = "raise"
       THEN Resolution("ProviderConstructionError", c.err, NoClient, NoMessage,
                       <<[ctor |-> reg[key], options |-> options]>>)
       ELSE Resolution("none", "", c.val, NoMessage,
                       <<[ctor |-> reg[key], options |-> options]>>)

\* --------------------------------------------------------- service facade
\* quackcore.integrations.llms.service.LLMIntegration, as
\* tests/test_integrations/llms/test_service.py uses it.

\* what _extract_config gives: an error, or the provider and its options
ExtractionFailed == [provider |-> "", options |-> ""]

Configs ==
    {ExtractionFailed}
    \cup {[provider |-> n, options |-> o] :
            n \in {"OpenAI", "unknown"}, o \in {"valid", "invalid_value"}}

\* LLMIntegration(): succeeded remembers whether any initialize() call on
\* this object has succeeded
NewService == [initialized |-> FALSE, client |-> NoClient, succeeded |-> FALSE]

Result(ok, e) == [success |-> ok, error |-> e]

\* an initialize() whose failure leaves the service as it was
initialize_keeps(svc, reg, base_ok, config) ==
    LET r == get_llm_client(reg, config.provider, config.options)
    IN IF ~base_ok
       THEN [svc |-> svc, result |-> Result(FALSE, "Base initialization failed"),
             called |-> <<>>]
       ELSE IF config = ExtractionFailed
       THEN [svc |-> svc, result |-> Result(FALSE, "Config extraction failed"),
             called |-> <<>>]
       ELSE IF r.raised # "none"
       THEN [svc |-> svc, result |-> Result(FALSE, r.raised), called |-> r.called]
       ELSE [svc |-> [initialized |-> TRUE, client |-> r.val, succeeded |-> TRUE],
             result |-> Result(TRUE, ""), called |-> r.called]

\* initialize(): base initialization, configuration extraction, then the
\* client from the provider registry
initialize(svc, reg, base_ok, config) ==
    LET r == get_llm_client(reg, config.provider, config.options)
        failed == [svc EXCEPT !.initialized = FALSE]
    IN IF ~base_ok
       THEN [svc |-> failed, result |-> Result(FALSE, "Base initialization failed"),
             called |-> <<>>]
       ELSE IF config = ExtractionFailed
       THEN [svc |-> failed, result |-> Result(FALSE, "Config extraction failed"),
             called |-> <<>>]
       ELSE IF r.raised # "none"
       THEN [svc |-> failed, result |-> Result(FALSE, r.raised), called |-> r.called]
       ELSE [svc |-> [initialized |-> TRUE, client |-> r.val, succeeded |-> TRUE],
             result |-> Result(TRUE, ""), called |-> r.called]

\* a facade that forwards to whatever client it holds
forward_unguarded(svc, reg, base_ok, config) ==
    [svc |-> svc, result |-> Result(TRUE, ""), called |-> <<>>]

\* chat and count_tokens: a service that is not initialized runs
\* initialize() itself and gives up when that fails
forward(svc, reg, base_ok, config) ==
    LET i == initialize(svc, reg, base_ok, config)
    IN IF svc.initialized
       THEN [svc |-> svc, result |-> Result(TRUE, ""), called |-> <<>>]
       ELSE IF ~i.result.success
       THEN [svc |-> i.svc, result |-> Result(FALSE, "not initialized"),
             called |-> i.called]
       ELSE [svc |-> i.svc, result |-> Result(TRUE, ""), called |-> i.called]

chat(svc, reg, base_ok, config) == forward(svc, reg, base_ok, config)

count_tokens(svc, reg, base_ok, config) == forward(svc, reg, base_ok, config)

get_client(svc) ==
    IF ~svc.initialized
    THEN [raised |-> "not initialized", val |-> NoClient]
    ELSE [raised |-> "none", val |-> svc.client]

\* ------------------------------------------------------------ file system
\* Paths are sequences of names below the root; the root is a directory.
FsNames == {"a", "b"}

Paths == {<<n>> : n \in FsNames} \cup {<<n, m>> : n, m \in FsNames}

FileContents == {"x", "y"}

Parent(p) == SubSeq(p, 1, Len(p) - 1)

Basename(p) == p[Len(p)]

\* p is q or lies below q
Under(p, q) == Len(q) <= Len(p) /\ SubSeq(p, 1, Len(q)) = q

\* every existing path but the top ones lies in an existing directory
WellFormed(f) ==
    \A p \in DOMAIN f :
        Len(p) > 1 => (Parent(p) \in DOMAIN f /\ f[Parent(p)] = "dir")

FileSystems ==
    {f \in UNION {[D -> FileContents \cup {"dir"}] : D \in SUBSET Paths} : WellFormed(f)}

\* Path.exists()
exists(f, p) == p = <<>> \/ p \in DOMAIN f

\* Path.is_dir()
is_dir(f, p) == p = <<>> \/ (p \in DOMAIN f /\ f[p] = "dir")

\* the outcome of one file-system primitive
Done(f) == [fs |-> f, err |-> "none"]

Failed(f, e) == [fs |-> f, err |-> e]

\* a file system with the paths of S removed and the entries of g added
Without(f, S) == [p \in DOMAIN f \ S |-> f[p]]

With(f, g) == [p \in DOMAIN f \cup DOMAIN g |-> IF p \in DOMAIN g THEN g[p] ELSE f[p]]

\* shutil.rmtree
rmtree(f, p, denied) ==
    IF ~exists(f, p) THEN Failed(f, "FileNotFoundError")
    ELSE IF ~is_dir(f, p) THEN Failed(f, "NotADirectoryError")
    ELSE IF denied THEN Failed(f, "PermissionError")
    ELSE Done(Without(f, {q \in DOMAIN f : Under(q, p)}))

\* Path.unlink
unlink(f, p, denied) ==
    IF ~exists(f, p) THEN Failed(f, "FileNotFoundError")
    ELSE IF is_dir(f, p) THEN Failed(f, "IsADirectoryError")
    ELSE IF denied THEN Failed(f, "PermissionError")
    ELSE Done(Without(f, {p}))

\* ensure_directory: mkdir(parents=True, exist_ok=True)
ensure_directory(f, p, denied) ==
    IF is_dir(f, p) THEN Done(f)
    ELSE IF exists(f, p) THEN Failed(f, "FileExistsError")
    ELSE IF ~is_dir(f, Parent(p)) /\ exists(f, Parent(p))
    THEN Failed(f, "NotADirectoryError")
    ELSE IF denied THEN Failed(f, "PermissionError")
    ELSE Done(With(f, [q \in {q \in {p, Parent(p)} : q # <<>>} |->
                        IF q \in DOMAIN f THEN f[q] ELSE "dir"]))

\* the subtree of src, moved below dst
Graft(f, src, dst) ==
    LET sub == {q \in DOMAIN f : Under(q, src)}
        to(q) == dst \o SubSeq(q, Len(src) + 1, Len(q))
    IN [t \in {to(q) : q \in sub} |->
            f[CHOOSE q \in sub : to(q) = t]]

\* shutil.copytree: dst must not exist, its parents are made
copytree(f, src, dst, denied) ==
    LET made == ensure_directory(f, Parent(dst), denied)
    IN IF ~exists(f, src) THEN Failed(f, "FileNotFoundError")
       ELSE IF exists(f, dst) THEN Failed(f, "FileExistsError")
       ELSE IF made.err # "none" THEN made
       ELSE IF denied THEN Failed(f, "PermissionError")
       ELSE Done(With(made.fs, Graft(f, src, dst)))

\* shutil.copy2: a dst that is a directory receives the file under its name
copy2(f, src, dst, denied) ==
    LET target == IF is_dir(f, dst) THEN Append(dst, Basename(src)) ELSE dst
    IN IF target = src THEN Failed(f, "SameFileError")
       ELSE IF is_dir(f, target) THEN Failed(f, "IsADirectoryError")
       ELSE IF ~is_dir(f, Parent(target)) THEN Failed(f, "FileNotFoundError")
       ELSE IF denied THEN Failed(f, "PermissionError")
       ELSE Done(With(f, [t \in {target} |-> f[src]]))

\* shutil.move: a rename; a dst that is a directory receives src under
\* its name
move(f, src, dst, denied) ==
    LET target == IF is_dir(f, dst) THEN Append(dst, Basename(src)) ELSE dst
    IN IF ~exists(f, src) THEN Failed(f, "FileNotFoundError")
       ELSE IF is_dir(f, dst) /\ exists(f, target) THEN Failed(f, "Error")
       ELSE IF is_dir(f, src) /\ Under(target, src) THEN Failed(f, "Error")
       ELSE IF ~is_dir(f, Parent(target)) THEN Failed(f, "FileNotFoundError")
       ELSE IF is_dir(f, src) /\ exists(f, target)
       THEN Failed(f, "NotADirectoryError")
       ELSE IF denied THEN Failed(f, "PermissionError")
       ELSE Done(With(Without(f, {q \in DOMAIN f : Under(q, src)}),
                      Graft(f, src, target)))

\* the except clauses that close each safe_ops function
wrap(e) ==
    IF e = "none" THEN "none"
    ELSE IF e = "PermissionError" THEN "QuackPermissionError"
    ELSE "QuackIOError"

\* what a safe_ops call leaves: the file system, the error, the value
FsOutcome(f, raised, ret) == [fs |-> f, raised |-> raised, ret |-> ret]

\* lines 26-74
safe_copy(f, src, dst, overwrite, denied) ==
    LET cleared == IF exists(f, dst) /\ overwrite
                   THEN rmtree(f, dst, denied) ELSE Done(f)
        tree == copytree(cleared.fs, src, dst, denied)
        made == ensure_directory(f, Parent(dst), denied)
        file == copy2(made.fs, src, dst, denied)
    IN IF ~exists(f, src)
       THEN FsOutcome(f, "QuackFileNotFoundError", <<>>)
       ELSE IF exists(f, dst) /\ ~overwrite
       THEN FsOutcome(f, "QuackFileExistsError", <<>>)
       ELSE IF is_dir(f, src)
       THEN IF cleared.err # "none"
            THEN FsOutcome(cleared.fs, wrap(cleared.err), <<>>)
            ELSE IF tree.err # "none"
            THEN FsOutcome(tree.fs, wrap(tree.err), <<>>)
            ELSE FsOutcome(tree.fs, "none", dst)
       ELSE IF made.err # "none"
       THEN FsOutcome(made.fs, wrap(made.err), <<>>)
       ELSE IF file.err # "none"
       THEN FsOutcome(file.fs, wrap(file.err), <<>>)
       ELSE FsOutcome(file.fs, "none", dst)

\* the destination, cleared when it exists: lines 110-116
clear_dst(f, dst, denied) ==
    IF ~exists(f, dst) THEN Done(f)
    ELSE IF is_dir(f, dst) THEN rmtree(f, dst, denied)
    ELSE unlink(f, dst, denied)

\* a move that clears the destination before it looks at overwrite
safe_move_clears_first(f, src, dst, overwrite, denied) ==
    LET made == ensure_directory(f, Parent(dst), denied)
        cleared == clear_dst(made.fs, dst, denied)
        moved == move(cleared.fs, src, dst, denied)
    IN IF ~exists(f, src)
       THEN FsOutcome(f, "QuackFileNotFoundError", <<>>)
       ELSE IF made.err # "none"
       THEN FsOutcome(made.fs, wrap(made.err), <<>>)
       ELSE IF cleared.err # "none"
       THEN FsOutcome(cleared.fs, wrap(cleared.err), <<>>)
       ELSE IF exists(f, dst) /\ ~overwrite
       THEN FsOutcome(cleared.fs, "QuackFileExistsError", <<>>)
       ELSE IF moved.err # "none"
       THEN FsOutcome(moved.fs, wrap(moved.err), <<>>)
       ELSE FsOutcome(moved.fs, "none", dst)

\* lines 78-126
safe_move(f, src, dst, overwrite, denied) ==
    LET made == ensure_directory(f, Parent(dst), denied)
        cleared == clear_dst(made.fs, dst, denied)
        moved == move(cleared.fs, src, dst, denied)
    IN IF ~exists(f, src)
       THEN FsOutcome(f, "QuackFileNotFoundError", <<>>)
       ELSE IF exists(f, dst) /\ ~overwrite
       THEN FsOutcome(f, "QuackFileExistsError", <<>>)
       ELSE IF made.err # "none"
       THEN FsOutcome(made.fs, wrap(made.err), <<>>)
       ELSE IF cleared.err # "none"
       THEN FsOutcome(cleared.fs, wrap(cleared.err), <<>>)
       ELSE IF moved.err # "none"
       THEN FsOutcome(moved.fs, wrap(moved.err), <<>>)
       ELSE FsOutcome(moved.fs, "none", dst)

\* a delete that takes a missing path for an error whatever missing_ok says
safe_delete_strict(f, path, missing_ok, denied) ==
    LET gone == clear_dst(f, path, denied)
    IN IF ~exists(f, path)
       THEN FsOutcome(f, "QuackFileNotFoundError", FALSE)
       ELSE IF gone.err # "none"
       THEN FsOutcome(gone.fs, wrap(gone.err), FALSE)
       ELSE FsOutcome(gone.fs, "none", TRUE)

\* lines 129-171
safe_delete(f, path, missing_ok, denied) ==
    LET gone == IF is_dir(f, path) THEN rmtree(f, path, denied)
                ELSE unlink(f, path, denied)
    IN IF ~exists(f, path)
       THEN IF missing_ok
            THEN FsOutcome(f, "none", FALSE)
            ELSE FsOutcome(f, "QuackFileNotFoundError", FALSE)
       ELSE IF gone.err # "none"
       THEN FsOutcome(gone.fs, wrap(gone.err), FALSE)
       ELSE FsOutcome(gone.fs, "none", TRUE)

\* ----------------------------------------------------------- configuration
\* A configuration dict is a function from keys to nodes; a node is a plain
\* value or a nested dict.
Leaf(v) == [kind |-> "leaf", val |-> v]

Dict(items) == [kind |-> "dict", items |-> items]

Str(t) == [type |-> "str", text |-> t]

EmptyDict == <<>>

\* one key with one node
Item(k, n) == [x \in {k} |-> n]

\* lines 23-34
DEFAULT_CONFIG_VALUES ==
    [k \in {"logging", "paths", "general"} |->
        CASE k = "logging" ->
                Dict([j \in {"level", "file"} |->
                        IF j = "level" THEN Leaf(Str("INFO"))
                        ELSE Leaf(Str("logs/quackcore.log"))])
          [] k = "paths" -> Dict(Item("base_dir", Leaf(Str("~/.quackcore"))))
          [] OTHER -> Dict(Item("project_name", Leaf(Str("QuackCore"))))]

\* current[k] = n
Put(current, k, n) ==
    [x \in DOMAIN current \cup {k} |-> IF x = k THEN n ELSE current[x]]

RECURSIVE _deep_merge(_, _)
\* a merge in which the override replaces a section whole
_deep_merge_shallow(base, override) ==
    [k \in DOMAIN base \cup DOMAIN override |->
        IF k \in DOMAIN override THEN override[k] ELSE base[k]]

\* lines 73-90
_deep_merge(base, override) ==
    [k \in DOMAIN base \cup DOMAIN override |->
        IF k \notin DOMAIN override THEN base[k]
        ELSE IF /\ k \in DOMAIN base
                /\ base[k].kind = "dict"
                /\ override[k].kind = "dict"
        THEN Dict(_deep_merge(base[k].items, override[k].items))
        ELSE override[k]]

\* lines 111-137, on the values the environment of the model holds
_convert_env_value(value) ==
    CASE value \in {"true", "True"} -> [type |-> "bool", text |-> "True"]
      [] value = "42" -> [type |-> "int", text |-> "42"]
      [] value = "1.5" -> [type |-> "float", text |-> "1.5"]
      [] OTHER -> Str(value)

\* An environment variable: whether its name starts with QUACK_, the
\* parts of the rest of the name between "__", and its value.
EnvVar(q, parts, v) == [quack |-> q, parts |-> parts, value |-> v]

\* str.lower on the parts of the names
lower_part(t) ==
    CASE t = "LOGGING" -> "logging"
      [] t = "Level" -> "level"
      [] t = "LEVEL" -> "level"
      [] t = "CUSTOM" -> "custom"
      [] t = "EXTRA" -> "extra"
      [] t = "DEBUG" -> "debug"
      [] t = "X" -> "x"
      [] OTHER -> t

\* lines 158-164: the walk along the key parts
RECURSIVE set_path(_, _, _)
set_path(current, parts, typed_value) ==
    LET part == Head(parts)
        child == IF part \in DOMAIN current THEN current[part] ELSE Dict(EmptyDict)
        below == set_path(child.items, Tail(parts), typed_value)
    IN IF Len(parts) = 1
       THEN [config |-> Put(current, part, Leaf(typed_value)), err |-> "none"]
       ELSE IF child.kind # "dict"
       \* current is now a plain value: item assignment or setdefault fails
       THEN [config |-> current,
             err |-> IF Len(parts) = 2 THEN "TypeError" ELSE "AttributeError"]
       ELSE IF below.err # "none"
       THEN [config |-> current, err |-> below.err]
       ELSE [config |-> Put(current, part, Dict(below.config)), err |-> "none"]

\* lines 140-165
RECURSIVE _get_env_config(_, _)
_get_env_config(env, config) ==
    LET var == Head(env)
        key_parts == [i \in 1..Len(var.parts) |-> lower_part(var.parts[i])]
        placed == set_path(config, key_parts, _convert_env_value(var.value))
    IN IF env = <<>> THEN [config |-> config, err |-> "none"]
       ELSE IF ~var.quack \/ Len(key_parts) < 2
       THEN _get_env_config(Tail(env), config)
       ELSE IF placed.err # "none" THEN placed
       ELSE _get_env_config(Tail(env), placed.config)

\* every function from a subset of K to V
PartialFunctions(K, V) == UNION {[D -> V] : D \in SUBSET K}

\* what a configuration file puts under a key of a section
KeyNodes == {Leaf(Str("DEBUG")), Dict(Item("x", Leaf(Str("1"))))}

\* what it puts under a section name: a plain value or a section
SectionNodes ==
    {Leaf(Str("off"))}
    \cup {Dict(g) : g \in PartialFunctions({"level", "extra"}, KeyNodes)}

FileDicts == PartialFunctions({"logging", "custom"}, SectionNodes)

\* The file: whether load_config is given its path or has to find it,
\* whether it exists and parses, and what yaml.safe_load makes of it.
ConfigFile(given, state, content) ==
    [given |-> given, state |-> state, content |-> content]

ConfigFiles ==
    {ConfigFile(g, st, EmptyDict) : g \in BOOLEAN, st \in {"missing", "invalid"}}
    \cup {ConfigFile(g, "ok", c) : g \in BOOLEAN, c \in FileDicts}

EnvVars ==
    {EnvVar(TRUE, <<"LOGGING", "LEVEL">>, "WARNING"),
     EnvVar(TRUE, <<"LOGGING", "Level", "X">>, "42"),
     EnvVar(TRUE, <<"CUSTOM", "EXTRA">>, "true"),
     EnvVar(TRUE, <<"DEBUG">>, "1.5"),
     EnvVar(FALSE, <<"HOME">>, "/root")}

\* environments: no variable twice
Environments ==
    {e \in SeqsUpTo(EnvVars, MaxVars) :
        \A i, j \in 1..Len(e) : i # j => e[i] # e[j]}

Loaded(raised, result) == [raised |-> raised, result |-> result]

\* lines 221-232: the file part of load_config
load_file(file) ==
    IF file.given /\ file.state = "missing"
    THEN Loaded("QuackConfigurationError", EmptyDict)
    ELSE IF file.state = "missing"
    THEN Loaded("none", EmptyDict)
    ELSE IF file.state = "invalid"
    THEN Loaded("QuackConfigurationError", EmptyDict)
    ELSE Loaded("none", file.content)

\* QuackConfig.model_validate: every section is a dict and the logging
\* settings are plain values; what the custom section holds is free
model_validate(config) ==
    IF \E k \in DOMAIN config : config[k].kind # "dict"
    THEN Loaded("ValidationError", EmptyDict)
    ELSE IF /\ "logging" \in DOMAIN config
            /\ \E j \in DOMAIN config["logging"].items :
                    config["logging"].items[j].kind # "leaf"
    THEN Loaded("ValidationError", EmptyDict)
    ELSE Loaded("none", config)

\* lines 200-245; the result is the validated dict
load_config(file, env, merge_env, merge_defaults) ==
    LET loaded == load_file(file)
        env_config == _get_env_config(env, EmptyDict)
        merged == IF merge_env
                  THEN _deep_merge(loaded.result, env_config.config)
                  ELSE loaded.result
    IN IF loaded.raised # "none" THEN loaded
       ELSE IF merge_env /\ env_config.err # "none"
       THEN Loaded(env_config.err, EmptyDict)
       ELSE IF merge_defaults
       THEN model_validate(_deep_merge(DEFAULT_CONFIG_VALUES, merged))
       ELSE model_validate(merged)

\* ----------------------------------------------------------------- actions
NoCall ==
    [op |-> "init", integration |-> None, name |-> "", before |-> <<>>,
     ret |-> <<>>, retb |-> FALSE, raised |-> "none", cause |-> "",
     steps |-> {}, n |-> 0]

\* prev remembers whether the call before was discover_integrations and
\* what it returned
Shift ==
    prev' = IF last.op = "discover"
            THEN [discover |-> TRUE, ret |-> last.ret]
            ELSE [discover |-> FALSE, ret |-> <<>>]

\* the file system, which no registry or provider operation touches
Files == <<fs, fs_args, fs_last>>

\* the configuration sources, which only the loader reads
Settings == <<environ, config_file, cfg_last>>

\* the two threads that call register concurrently
Concurrent == <<threads, stores>>

Env == <<entry_points, plugin_loader, module, Files, Settings, Concurrent>>

\* what the IntegrationRegistry operations of the other specifications
\* never touch
Others == <<calls, gen, llm_registry, llm_last, service>>

RegisterInputs == {RegA, RegB, NoName}

Register ==
    \E integration \in RegisterInputs :
        LET r == register(integrations, integration)
        IN /\ integrations' = r.tbl
           /\ last' = [NoCall EXCEPT !.op = "register", !.integration = integration,
                                     !.before = integrations, !.raised = r.raised]
           /\ Shift
           /\ UNCHANGED <<Env, Others>>

Unregister ==
    \E name \in Names :
        LET r == unregister(integrations, name)
        IN /\ integrations' = r.tbl
           /\ last' = [NoCall EXCEPT !.op = "unregister", !.name = name,
                                     !.before = integrations, !.retb = r.ret]
           /\ Shift
           /\ UNCHANGED <<Env, Others>>

Discover ==
    LET r == discover_integrations(integrations, entry_points, plugin_loader)
    IN /\ integrations' = r.tbl
       /\ last' = [NoCall EXCEPT !.op = "discover", !.before = integrations,
                                 !.ret = r.ret, !.raised = r.raised, !.n = r.n]
       /\ Shift
       /\ UNCHANGED <<Env, Others>>

NoLLMCall ==
    [op |-> "init", provider |-> "", options |-> "", ctor |-> "", base_ok |-> TRUE,
     before |-> InitialRegistry, was |-> NewService, raised |-> "none",
     cause |-> "", val |-> NoClient, message |-> NoMessage, called |-> <<>>,
     result |-> Result(TRUE, "")]

NoFsCall ==
    [op |-> "init", overwrite |-> FALSE, missing_ok |-> FALSE, denied |-> FALSE,
     before |-> <<>>, raised |-> "none", ret |-> <<>>, retb |-> FALSE]

\* a host whose file system the model does not look at
NoFiles ==
    /\ fs = <<>>
    /\ fs_args = [src |-> <<>>, dst |-> <<>>]
    /\ fs_last = NoFsCall

NoConfigCall ==
    [op |-> "init", merge_env |-> FALSE, merge_defaults |-> FALSE,
     raised |-> "none", result |-> EmptyDict]

\* a host whose configuration the model does not look at
NoSettings ==
    /\ environ = <<>>
    /\ config_file = ConfigFile(FALSE, "missing", EmptyDict)
    /\ cfg_last = NoConfigCall

\* a thread that has not called register
NoThread ==
    [pc |-> "idle", integration |-> None, raised |-> "none", overlap |-> FALSE,
     calls |-> 0]

ThreadIds == {1, 2}

NoThreads ==
    /\ threads = [t \in ThreadIds |-> NoThread]
    /\ stores = <<>>

InitCommon ==
    /\ NoThreads
    /\ integrations = <<>>
    /\ plugin_loader \in BOOLEAN
    /\ last = NoCall
    /\ prev = [discover |-> FALSE, ret |-> <<>>]
    /\ calls = <<>>
    /\ gen = NoGenerator
    /\ llm_registry = InitialRegistry
    /\ llm_last = NoLLMCall
    /\ service = NewService
    /\ NoFiles
    /\ NoSettings

\* the registry used with entry-point discovery
InitDiscover ==
    /\ InitCommon
    /\ entry_points \in EntryPointLists
    /\ module = BareModule

NextDiscover == Register \/ Unregister \/ Discover

SpecDiscover == InitDiscover /\ [][NextDiscover]_vars

LoadModule ==
    LET r == load_integration_module(integrations, module, plugin_loader)
    IN /\ integrations' = r.tbl
       /\ last' = [NoCall EXCEPT !.op = "load", !.before = integrations,
                                 !.ret = r.ret, !.raised = r.raised,
                                 !.cause = r.cause, !.steps = r.steps]
       /\ Shift
       /\ UNCHANGED <<Env, Others>>

\* the registry used with load_integration_module on one module path
InitLoad ==
    /\ InitCommon
    /\ entry_points = <<>>
    /\ module \in Modules
    /\ IF plugin_loader THEN module.plugin \in PluginOutcomes
                        ELSE module.plugin = Return(None)

NextLoad == Register \/ LoadModule

SpecLoad == InitLoad /\ [][NextLoad]_vars

\* the registry used both ways
Init == InitDiscover \/ InitLoad

Next == Register \/ Discover \/ LoadModule

Spec == Init /\ [][Next]_vars

\* ------------------------------------------------- reading the table back
\* instances handed to register, whatever their shape
Instances == {RegA, RegB, GoodB, NonCallC, NoName}

Llm == <<llm_registry, llm_last, service>>

\* register, with the call recorded
RegisterInstance ==
    /\ Len(calls) < MaxCalls
    /\ \E integration \in Instances :
        LET r == register(integrations, integration)
        IN /\ integrations' = r.tbl
           /\ calls' = Append(calls, [integration |-> integration,
                                      raised |-> r.raised])
           /\ last' = [NoCall EXCEPT !.op = "register",
                                     !.integration = integration,
                                     !.before = integrations,
                                     !.raised = r.raised]
           /\ Shift
           /\ UNCHANGED <<Env, gen, Llm>>

GetByType ==
    \E T \in Types :
        /\ gen' = get_integration_by_type(T)
        /\ last' = [NoCall EXCEPT !.op = "get_by_type", !.name = T,
                                  !.before = integrations]
        /\ Shift
        /\ UNCHANGED <<integrations, calls, Env, Llm>>

\* the caller iterates the object it was given
Iterate ==
    /\ gen # NoGenerator
    /\ gen.passes < MaxPasses
    /\ LET r == iterate(integrations, gen)
       IN /\ gen' = r.gen
          /\ last' = [NoCall EXCEPT !.op = "iterate", !.name = gen.type,
                                    !.before = integrations, !.ret = r.ret,
                                    !.n = r.gen.passes]
          /\ Shift
          /\ UNCHANGED <<integrations, calls, Env, Llm>>

InitRegistry ==
    /\ InitCommon
    /\ ~plugin_loader
    /\ entry_points = <<>>
    /\ module = BareModule

NextRegistry == RegisterInstance \/ GetByType \/ Iterate

SpecRegistry == InitRegistry /\ [][NextRegistry]_vars

\* ------------------------------------------- provider registry and service
Registry == <<integrations, last, prev, calls, gen, Env>>

\* names and constructors that callers register
RegisteredNames == {"openai", "OpenAI", "TestClient"}

RegisteredConstructors == {"TestClient", "MockLLMClient"}

RegisterLLMClient ==
    \E name \in RegisteredNames, ctor \in RegisteredConstructors :
        /\ llm_registry' = register_llm_client(llm_registry, name, ctor)
        /\ llm_last' = [NoLLMCall EXCEPT !.op = "register", !.provider = name,
                                         !.ctor = ctor, !.before = llm_registry,
                                         !.was = service]
        /\ UNCHANGED <<service, Registry>>

\* del _LLM_REGISTRY[key], as the tests clean up
DelProvider ==
    \E key \in DOMAIN llm_registry :
        /\ llm_registry' = del_provider(llm_registry, key)
        /\ llm_last' = [NoLLMCall EXCEPT !.op = "del", !.provider = key,
                                         !.before = llm_registry, !.was = service]
        /\ UNCHANGED <<service, Registry>>

GetLLMClient ==
    \E provider \in ProviderNames, options \in Options :
        LET r == get_llm_client(llm_registry, provider, options)
        IN /\ llm_last' = [NoLLMCall EXCEPT !.op = "get", !.provider = provider,
                                            !.options = options,
                                            !.before = llm_registry,
                                            !.was = service,
                                            !.raised = r.raised, !.cause = r.cause,
                                            !.val = r.val, !.message = r.message,
                                            !.called = r.called]
           /\ UNCHANGED <<llm_registry, service, Registry>>

Initialize ==
    \E base_ok \in BOOLEAN, config \in Configs :
        LET r == initialize(service, llm_registry, base_ok, config)
        IN /\ service' = r.svc
           /\ llm_last' = [NoLLMCall EXCEPT !.op = "initialize",
                                            !.base_ok = base_ok,
                                            !.provider = config.provider,
                                            !.options = config.options,
                                            !.before = llm_registry,
                                            !.was = service,
                                            !.called = r.called,
                                            !.result = r.result]
           /\ UNCHANGED <<llm_registry, Registry>>

Chat ==
    \E base_ok \in BOOLEAN, config \in Configs :
        LET r == chat(service, llm_registry, base_ok, config)
        IN /\ service' = r.svc
           /\ llm_last' = [NoLLMCall EXCEPT !.op = "chat",
                                            !.before = llm_registry,
                                            !.was = service,
                                            !.called = r.called,
                                            !.result = r.result]
           /\ UNCHANGED <<llm_registry, Registry>>

CountTokens ==
    \E base_ok \in BOOLEAN, config \in Configs :
        LET r == count_tokens(service, llm_registry, base_ok, config)
        IN /\ service' = r.svc
           /\ llm_last' = [NoLLMCall EXCEPT !.op = "count_tokens",
                                            !.before = llm_registry,
                                            !.was = service,
                                            !.called = r.called,
                                            !.result = r.result]
           /\ UNCHANGED <<llm_registry, Registry>>

GetClient ==
    LET r == get_client(service)
    IN /\ llm_last' = [NoLLMCall EXCEPT !.op = "get_client",
                                        !.before = llm_registry,
                                        !.was = service,
                                        !.raised = r.raised, !.val = r.val]
       /\ UNCHANGED <<llm_registry, service, Registry>>

InitLLM ==
    /\ InitCommon
    /\ ~plugin_loader
    /\ entry_points = <<>>
    /\ module = BareModule

NextLLM ==
    \/ RegisterLLMClient
    \/ DelProvider
    \/ GetLLMClient
    \/ Initialize
    \/ Chat
    \/ CountTokens
    \/ GetClient

SpecLLM == InitLLM /\ [][NextLLM]_vars

\* ------------------------------------------------------------- safe_ops
\* everything but the file system
NotFiles ==
    <<integrations, entry_points, plugin_loader, module, last, prev, Others,
      Settings, Concurrent>>

\* the result stays within the paths of the model
Fits(f) == DOMAIN f \subseteq Paths

SafeCopy ==
    \E overwrite \in BOOLEAN, denied \in BOOLEAN :
        LET r == safe_copy(fs, fs_args.src, fs_args.dst, overwrite, denied)
        IN /\ Fits(r.fs)
           /\ fs' = r.fs
           /\ fs_last' = [NoFsCall EXCEPT !.op = "copy", !.overwrite = overwrite,
                                          !.denied = denied, !.before = fs,
                                          !.raised = r.raised, !.ret = r.ret]
           /\ UNCHANGED <<fs_args, NotFiles>>

SafeMove ==
    \E overwrite \in BOOLEAN, denied \in BOOLEAN :
        LET r == safe_move(fs, fs_args.src, fs_args.dst, overwrite, denied)
        IN /\ Fits(r.fs)
           /\ fs' = r.fs
           /\ fs_last' = [NoFsCall EXCEPT !.op = "move", !.overwrite = overwrite,
                                          !.denied = denied, !.before = fs,
                                          !.raised = r.raised, !.ret = r.ret]
           /\ UNCHANGED <<fs_args, NotFiles>>

\* safe_delete is called on the src path
SafeDelete ==
    \E missing_ok \in BOOLEAN, denied \in BOOLEAN :
        LET r == safe_delete(fs, fs_args.src, missing_ok, denied)
        IN /\ fs' = r.fs
           /\ fs_last' = [NoFsCall EXCEPT !.op = "delete",
                                          !.missing_ok = missing_ok,
                                          !.denied = denied, !.before = fs,
                                          !.raised = r.raised, !.retb = r.ret]
           /\ UNCHANGED <<fs_args, NotFiles>>

\* a registry and a provider table that nothing is done with
Idle ==
    /\ NoThreads
    /\ integrations = <<>>
    /\ entry_points = <<>>
    /\ plugin_loader = FALSE
    /\ module = BareModule
    /\ last = NoCall
    /\ prev = [discover |-> FALSE, ret |-> <<>>]
    /\ calls = <<>>
    /\ gen = NoGenerator
    /\ llm_registry = InitialRegistry
    /\ llm_last = NoLLMCall
    /\ service = NewService

\* the two names are alike, so src is taken at or below the first
SrcPaths == {p \in Paths : p[1] = "a"}

InitFiles ==
    /\ Idle
    /\ NoSettings
    /\ fs \in FileSystems
    /\ fs_args \in [src : SrcPaths, dst : Paths]
    /\ fs_last = NoFsCall

NextFiles == SafeCopy \/ SafeMove \/ SafeDelete

SpecFiles == InitFiles /\ [][NextFiles]_vars

\* -------------------------------------------------------------- load_config
LoadConfig ==
    \E merge_env \in BOOLEAN, merge_defaults \in BOOLEAN :
        LET r == load_config(config_file, environ, merge_env, merge_defaults)
        IN /\ cfg_last' = [NoConfigCall EXCEPT !.op = "load_config",
                                               !.merge_env = merge_env,
                                               !.merge_defaults = merge_defaults,
                                               !.raised = r.raised,
                                               !.result = r.result]
           /\ UNCHANGED <<environ, config_file, Files, integrations,
                          entry_points, plugin_loader, module, last, prev,
                          Others, Concurrent>>

InitConfig ==
    /\ Idle
    /\ NoFiles
    /\ environ \in Environments
    /\ config_file \in ConfigFiles
    /\ cfg_last = NoConfigCall

NextConfig == LoadConfig

SpecConfig == InitConfig /\ [][NextConfig]_vars

\* --------------------------------------------- register from two threads
\* a store that leaves the value of a key that is there
setitem_keeps(tbl, integration) ==
    IF integration.name \in Keys(tbl) THEN tbl ELSE Append(tbl, integration)

\* self._integrations[integration_name] = integration, line 65: a key that
\* is there keeps its place and gets the new value
setitem(tbl, integration) ==
    IF integration.name \in Keys(tbl)
    THEN [i \in 1..Len(tbl) |->
              IF tbl[i].name = integration.name THEN integration ELSE tbl[i]]
    ELSE Append(tbl, integration)

ThreadInputs == {RegA, GoodA1, RegB, NoName}

Other(t) == CHOOSE u \in ThreadIds : u # t

\* line 57: the call binds its argument and reads integration.name
ThreadCall ==
    \E t \in ThreadIds, integration \in ThreadInputs :
        /\ threads[t].pc \in {"idle", "returned", "raised"}
        /\ threads[t].calls < MaxThreadCalls
        /\ threads' = [threads EXCEPT ![t] =
               [pc |-> IF hasattr(integration, "name") THEN "named" ELSE "raised",
                integration |-> integration,
                raised |-> IF hasattr(integration, "name") THEN "none"
                           ELSE "AttributeError",
                overlap |-> FALSE,
                calls |-> @.calls + 1]]
        /\ UNCHANGED <<integrations, stores>>

\* lines 58-62: the membership test; the thread overlaps with the other one
\* when that one has passed the test for the same name and not yet stored
ThreadTest ==
    \E t \in ThreadIds :
        LET u == Other(t)
            meets == /\ threads[u].pc = "passed"
                     /\ threads[u].integration.name = threads[t].integration.name
        IN /\ threads[t].pc = "named"
           /\ IF threads[t].integration.name \in Keys(integrations)
              THEN threads' = [threads EXCEPT ![t].pc = "raised",
                                              ![t].raised = "QuackError"]
              ELSE threads' = [threads EXCEPT ![t].pc = "passed",
                                              ![t].overlap = meets,
                                              ![u].overlap = @ \/ meets]
           /\ UNCHANGED <<integrations, stores>>

\* line 65: the insertion
ThreadStore ==
    \E t \in ThreadIds :
        /\ threads[t].pc = "passed"
        /\ integrations' = setitem(integrations, threads[t].integration)
        /\ stores' = Append(stores, threads[t].integration)
        /\ threads' = [threads EXCEPT ![t].pc = "stored"]

\* line 66: the call logs and returns
ThreadReturn ==
    \E t \in ThreadIds :
        /\ threads[t].pc = "stored"
        /\ threads' = [threads EXCEPT ![t].pc = "returned"]
        /\ UNCHANGED <<integrations, stores>>

\* what the two threads leave alone
NotThreads ==
    <<entry_points, plugin_loader, module, last, prev, Others, Files, Settings>>

InitThreads == Idle /\ NoFiles /\ NoSettings

NextThreads ==
    \/ ThreadCall /\ UNCHANGED NotThreads
    \/ ThreadTest /\ UNCHANGED NotThreads
    \/ ThreadStore /\ UNCHANGED NotThreads
    \/ ThreadReturn /\ UNCHANGED NotThreads

SpecThreads == InitThreads /\ [][NextThreads]_vars

\* ------------------------------------------- every operation of the table
\* get_integration, lines 85-95
GetIntegration ==
    \E name \in Names :
        /\ last' = [NoCall EXCEPT !.op = "get", !.name = name,
                                  !.before = integrations,
                                  !.integration = get_integration(integrations, name)]
        /\ Shift
        /\ UNCHANGED <<integrations, Env, Others>>

\* list(get_integration_by_type(T)), lines 97-109: the generator is made
\* and run to its end by the caller, who keeps the list only
CollectByType ==
    \E T \in Types :
        /\ last' = [NoCall EXCEPT !.op = "get_by_type", !.name = T,
                                  !.before = integrations,
                                  !.ret = iterate(integrations,
                                                  get_integration_by_type(T)).ret]
        /\ Shift
        /\ UNCHANGED <<integrations, Env, Others>>

\* list_integrations, lines 111-118
ListIntegrations ==
    /\ last' = [NoCall EXCEPT !.op = "list", !.before = integrations,
                              !.ret = list_integrations(integrations)]
    /\ Shift
    /\ UNCHANGED <<integrations, Env, Others>>

\* is_registered, lines 120-130
IsRegistered ==
    \E name \in Names :
        /\ last' = [NoCall EXCEPT !.op = "is_registered", !.name = name,
                                  !.before = integrations,
                                  !.retb = is_registered(integrations, name)]
        /\ Shift
        /\ UNCHANGED <<integrations, Env, Others>>

\* the descriptor lists of a pair of descriptors
FrameEntryPoints == {<<d, e>> : d, e \in Descriptors}

\* the modules with create_integration and TestIntegration only, and those
\* with one public attribute only
FrameModules ==
    { m \in Modules :
          \/ m.attrs = <<>>
          \/ /\ Tail(m.attrs) = <<>>
             /\ m.create.kind = "absent"
             /\ m.test.kind = "absent" }

\* the registry with such a descriptor list or such a module
InitFrame ==
    /\ InitCommon
    /\ \/ /\ entry_points \in FrameEntryPoints
          /\ module = BareModule
       \/ /\ entry_points = <<>>
          /\ module \in FrameModules
          /\ IF plugin_loader THEN module.plugin \in PluginOutcomes
                              ELSE module.plugin = Return(None)

NextFrame ==
    \/ Register
    \/ Unregister
    \/ Discover
    \/ LoadModule
    \/ GetIntegration
    \/ CollectByType
    \/ ListIntegrations
    \/ IsRegistered

SpecFrame == InitFrame /\ [][NextFrame]_vars

\* ================================================================== claims
\* The Capability Contract: name, version, initialize and is_available are
\* present, initialize and is_available are callable.
Conformant(o) ==
    /\ o.name # Absent
    /\ o.version # Absent
    /\ o.initialize = "callable"
    /\ o.is_available = "callable"

Elems(q) == {q[i] : i \in 1..Len(q)}

\* what the i-th entry point hands to the loop of discover_integrations
Yield(i) == _load_integration_from_entry(entry_points[i], plugin_loader).val

\* the i-th descriptor fails by raising
RaisesAt(i) ==
    \/ entry_points[i].load = "raise"
    \/ entry_points[i].load = "callable" /\ entry_points[i].factory.kind = "raise"

\* the i-th descriptor's factory returns an object that is not conformant
NonConformantAt(i) ==
    /\ entry_points[i].load = "callable"
    /\ entry_points[i].factory.kind = "return"
    /\ ~Conformant(entry_points[i].factory.val)

\* C1: register on a name that is already in the table raises the
\* duplicate-registration QuackError and leaves the table as it was: same
\* keys, and the name still maps to the instance registered first.
C1_DuplicateRegisterRejected ==
    (/\ last.op = "register"
     /\ last.integration.name \in Keys(last.before))
    => /\ last.raised = "QuackError"
       /\ Keys(integrations) = Keys(last.before)
       /\ Lookup(integrations, last.integration.name)
              = Lookup(last.before, last.integration.name)
       /\ integrations = last.before

\* a second instance was offered under a name held by a different instance
C1_Witness ==
    /\ last.op = "register"
    /\ last.integration.name \in Keys(last.before)
    /\ Lookup(last.before, last.integration.name) # last.integration
    /\ last.raised = "QuackError"

\* C2: unregister of a registered name returns True, the name is no longer
\* registered and every other entry is unchanged; unregister of an absent
\* name returns False, does not raise and leaves the table unchanged.
C2_UnregisterEffect ==
    last.op = "unregister"
    => /\ last.raised = "none"
       /\ IF last.name \in Keys(last.before)
          THEN /\ last.retb
               /\ ~is_registered(integrations, last.name)
               /\ \A n \in Keys(last.before) \ {last.name} :
                      get_integration(integrations, n) = get_integration(last.before, n)
               /\ Keys(integrations) = Keys(last.before) \ {last.name}
          ELSE /\ ~last.retb
               /\ integrations = last.before

\* the oldest of two entries stays when the newer one is unregistered
C2_Witness ==
    /\ last.op = "unregister"
    /\ Len(last.before) = 2
    /\ last.name = last.before[2].name
    /\ last.retb
    /\ integrations = <<last.before[1]>>

\* C3: discover_integrations never raises whatever the descriptors do; it
\* hands every descriptor to the loader, keeps the entries it found, and the
\* entries it adds are exactly the conformant instances the descriptors
\* yield under a name that was not registered when they were reached.
C3_DiscoverNeverRaises ==
    last.op = "discover"
    => /\ last.raised = "none"
       /\ last.n = Len(entry_points)
       /\ SubSeq(integrations, 1, Len(last.before)) = last.before
       /\ \A i \in 1..Len(entry_points) :
              Yield(i) # None
              => /\ Conformant(Yield(i))
                 /\ Yield(i).name \in Keys(integrations)
                 /\ (/\ Yield(i).name \notin Keys(last.before)
                     /\ \A j \in 1..(i - 1) : Yield(j).name # Yield(i).name)
                    => Lookup(integrations, Yield(i).name) = Yield(i)
       /\ \A o \in Elems(integrations) \ Elems(last.before) :
              \E i \in 1..Len(entry_points) : Yield(i) = o

\* a raising descriptor, then a non-conformant one, then a conformant one
\* that is registered
C3_Witness ==
    /\ last.op = "discover"
    /\ Len(entry_points) = 3
    /\ RaisesAt(1) /\ Yield(1) = None
    /\ NonConformantAt(2) /\ Yield(2) = None
    /\ Yield(3) # None
    /\ integrations = Append(last.before, Yield(3))
    /\ last.ret = <<Yield(3)>>

\* C8 as claimed: a second discover_integrations over the same entry
\* points, with nothing unregistered in between, raises the
\* duplicate-registration error for a name the first call registered.
C8_SecondDiscoverRaises ==
    (/\ last.op = "discover"
     /\ prev.discover
     /\ prev.ret # <<>>)
    => last.raised = "QuackError"

\* C8 amended: the second call does not raise; for every name the first
\* call registered the duplicate is caught inside the call: nothing with
\* that name is returned and the table keeps the first call's instance.
C8_SecondDiscoverSkips ==
    (/\ last.op = "discover"
     /\ prev.discover)
    => /\ last.raised = "none"
       /\ \A i \in 1..Len(prev.ret) :
              /\ Lookup(integrations, prev.ret[i].name) = prev.ret[i]
              /\ \A j \in 1..Len(last.ret) : last.ret[j].name # prev.ret[i].name

\* two discoveries in a row, the first of which registered something
C8_Witness ==
    /\ last.op = "discover"
    /\ prev.discover
    /\ prev.ret # <<>>
    /\ last.raised = "none"

\* C9: a descriptor whose conformant instance has a name that is already
\* registered is skipped: no error leaves the call, nothing with that name
\* is returned, the existing entry is kept, and the descriptors after it
\* are still processed and registered.
C9_DuplicateSkippedInDiscover ==
    last.op = "discover"
    => \A i \in 1..Len(entry_points) :
           (Yield(i) # None /\ Yield(i).name \in Keys(last.before))
           => /\ last.raised = "none"
              /\ \A j \in 1..Len(last.ret) : last.ret[j].name # Yield(i).name
              /\ Lookup(integrations, Yield(i).name) = Lookup(last.before, Yield(i).name)
              /\ last.n = Len(entry_points)
              /\ \A k \in (i + 1)..Len(entry_points) :
                     Yield(k) # None => Yield(k).name \in Keys(integrations)

\* a duplicate of another instance's name is followed by a descriptor that
\* is registered
C9_Witness ==
    /\ last.op = "discover"
    /\ \E i \in 1..Len(entry_points) : \E k \in (i + 1)..Len(entry_points) :
           /\ Yield(i) # None
           /\ Yield(i).name \in Keys(last.before)
           /\ Lookup(last.before, Yield(i).name) # Yield(i)
           /\ Yield(k) \in Elems(last.ret)
           /\ Yield(k) \in Elems(integrations)

\* the plugin loader handed back a conformant object for the module path
PluginConformant ==
    plugin_loader /\ module.plugin.kind = "return" /\ Conformant(module.plugin.val)

\* the i-th public attribute is a class defined in the module whose
\* no-argument instance is conformant
LocalConformant(i) ==
    /\ module.attrs[i].kind = "class"
    /\ module.attrs[i].local
    /\ module.attrs[i].ctor.kind = "return"
    /\ Conformant(module.attrs[i].ctor.val)

Instance(i) == module.attrs[i].ctor.val

\* the module holds nothing that yields a conformant instance
NoConformantIntegration ==
    /\ ~PluginConformant
    /\ ~(/\ module.create.kind = "callable"
         /\ module.create.call.kind = "return"
         /\ Conformant(module.create.call.val))
    /\ ~(/\ module.test.kind = "class"
         /\ module.test.ctor.kind = "return"
         /\ Conformant(module.test.ctor.val))
    /\ \A i \in 1..Len(module.attrs) :
           ~(/\ module.attrs[i].kind = "class"
             /\ module.attrs[i].ctor.kind = "return"
             /\ Conformant(module.attrs[i].ctor.val))

\* C4 as claimed: load_integration_module on a module path that cannot be
\* imported raises the unresolvable-module QuackError and registers nothing.
C4_UnimportableAlwaysRaises ==
    (last.op = "load" /\ ~Resolves(module))
    => /\ last.raised = "QuackError"
       /\ integrations = last.before

\* C4 amended: on a path that cannot be imported the call raises and
\* registers nothing, unless the plugin loader resolved the path to a
\* conformant instance with an unregistered name, which is registered and
\* returned without any import; a failed import raises QuackError.
C4_UnimportableRaisesUnlessPlugin ==
    (last.op = "load" /\ ~Resolves(module))
    => IF PluginConformant /\ module.plugin.val.name \notin Keys(last.before)
       THEN /\ last.raised = "none"
            /\ last.ret = <<module.plugin.val>>
            /\ integrations = Append(last.before, module.plugin.val)
            /\ "resolve" \notin last.steps
       ELSE /\ last.raised # "none"
            /\ last.ret = <<>>
            /\ integrations = last.before
            /\ "resolve" \in last.steps => last.raised = "QuackError"

\* the import failed with entries in the table and a plugin loader that
\* had found nothing
C4_Witness ==
    /\ last.op = "load"
    /\ module.resolution = "ImportError"
    /\ plugin_loader
    /\ "resolve" \in last.steps
    /\ last.raised = "QuackError"
    /\ last.before # <<>>
    /\ integrations = last.before

\* C5: load_integration_module on a module that resolves but holds no
\* conformant integration returns an empty list, does not raise and leaves
\* the table unchanged.
C5_NothingConformantGivesEmpty ==
    (/\ last.op = "load"
     /\ Resolves(module)
     /\ NoConformantIntegration)
    => /\ last.ret = <<>>
       /\ last.raised = "none"
       /\ integrations = last.before

\* C6 as claimed: with no plugin loader and no create_integration, every
\* conformant instance of a locally defined public class is in the returned
\* list and is registered when the call returns.
C6_AllLocalClassesRegistered ==
    (/\ last.op = "load"
     /\ ~plugin_loader
     /\ Resolves(module)
     /\ module.create.kind = "absent")
    => \A i \in 1..Len(module.attrs) :
           LocalConformant(i)
           => /\ Instance(i) \in Elems(last.ret)
              /\ Lookup(integrations, Instance(i).name) = Instance(i)

\* the i-th attribute's instance meets no entry of its own name: none in
\* the table before the call, none from TestIntegration, none from an
\* earlier class
FreshAt(i) ==
    /\ Instance(i).name \notin Keys(last.before)
    /\ \A o \in Elems(scan_test_integration(module)) : o.name # Instance(i).name
    /\ \A j \in 1..(i - 1) : LocalConformant(j) => Instance(j).name # Instance(i).name

\* C6 amended: with no plugin loader and no create_integration, the name of
\* every conformant instance of a locally defined public class is
\* registered when the call returns, and the instance itself is returned
\* and registered unless its name was already taken, before the call or by
\* an earlier candidate of the same call.
C6_FreshLocalClassesRegistered ==
    (/\ last.op = "load"
     /\ ~plugin_loader
     /\ Resolves(module)
     /\ module.create.kind = "absent")
    => /\ last.raised = "none"
       /\ \A i \in 1..Len(module.attrs) :
              LocalConformant(i)
              => /\ Instance(i).name \in Keys(integrations)
                 /\ FreshAt(i)
                    => /\ Instance(i) \in Elems(last.ret)
                       /\ Lookup(integrations, Instance(i).name) = Instance(i)

\* two local classes, both returned and both registered
C6_Witness ==
    /\ last.op = "load"
    /\ ~plugin_loader
    /\ Resolves(module)
    /\ module.create.kind = "absent"
    /\ module.test.kind = "absent"
    /\ Len(module.attrs) = 2
    /\ LocalConformant(1) /\ LocalConformant(2)
    /\ last.ret = <<Instance(1), Instance(2)>>
    /\ integrations = last.before \o last.ret

\* C7: every instance that discover_integrations or load_integration_module
\* registers satisfies the Capability Contract, callability of initialize
\* and is_available included, whatever acceptance point let it in.
C7_RegisteredAreConformant ==
    last.op \in {"discover", "load"}
    => \A i \in 1..Len(last.ret) : Conformant(last.ret[i])

\* C10: an error of any kind raised by load_plugin is treated as the plugin
\* loader producing nothing: the call goes on to module resolution and
\* raises only when the module cannot be resolved.
C10_PluginErrorsContained ==
    (/\ last.op = "load"
     /\ plugin_loader
     /\ module.plugin.kind = "raise")
    => /\ "resolve" \in last.steps
       /\ last.raised # "none" => (~Resolves(module) /\ last.raised = "QuackError")

\* ---------------------------------------------------- reading the table
\* the recorded register calls all carry a name, no two the same
DistinctNames(cs) ==
    /\ \A i \in 1..Len(cs) : hasattr(cs[i].integration, "name")
    /\ \A i, j \in 1..Len(cs) :
        i # j => cs[i].integration.name # cs[j].integration.name

\* C11: starting from an empty registry, registering N integrations with
\* pairwise distinct names, in any order, succeeds every time, and
\* list_integrations then returns exactly those N names, each once.
C11_DistinctRegistrationsListed ==
    DistinctNames(calls)
    => /\ \A i \in 1..Len(calls) : calls[i].raised = "none"
       /\ Len(list_integrations(integrations)) = Len(calls)
       /\ Elems(list_integrations(integrations))
            = {calls[i].integration.name : i \in 1..Len(calls)}

\* three distinct names registered, not in alphabetical order
C11_Witness ==
    /\ Len(calls) = 3
    /\ DistinctNames(calls)
    /\ calls[1].integration.name = "c"
    /\ calls[3].integration.name = "a"
    /\ Len(integrations) = 3

\* the registered instances the type matches
Matching(T) == {o \in Elems(integrations) : isinstance(o, T)}

\* C12: iterating what get_integration_by_type returned yields exactly the
\* registered instances that are instances of the type, each exactly once:
\* nothing when none matches, every registered instance when all match.
C12_YieldsExactlyTheMatching ==
    (last.op = "iterate" /\ gen.passes = 1)
    => /\ Elems(last.ret) = Matching(gen.type)
       /\ Len(last.ret) = Cardinality(Matching(gen.type))
       /\ gen.type = "Unrelated" => last.ret = <<>>
       /\ gen.type = "object" => Len(last.ret) = Len(integrations)

\* three registered, one of them of the type asked for
C12_Witness ==
    /\ last.op = "iterate"
    /\ gen.passes = 1
    /\ gen.type = "ServiceB"
    /\ Len(integrations) = 3
    /\ Len(last.ret) = 1

\* C13 as stated: iterating the same returned object a second time, with no
\* table change in between, yields the instances of the first iteration
\* again.
C13_SecondIterationRepeats ==
    (last.op = "iterate" /\ gen.passes = 2 /\ integrations = gen.at)
    => last.ret = gen.first

\* C13, amended: the returned object is single-pass; every iteration after
\* the first yields nothing, whatever the first one yielded.
C13_SecondIterationEmpty ==
    (last.op = "iterate" /\ gen.passes >= 2) => last.ret = <<>>

\* a second iteration over an unchanged table whose first iteration
\* yielded something
C13_Witness ==
    /\ last.op = "iterate"
    /\ gen.passes = 2
    /\ integrations = gen.at
    /\ gen.first # <<>>
    /\ last.ret = <<>>

\* C14: when load_integration_module fails because the module cannot be
\* imported, the original_error of the error that reaches the caller is the
\* ImportError the import mechanism raised, not a wrapper around it.
C14_CauseIsImportError ==
    (/\ last.op = "load"
     /\ "resolve" \in last.steps
     /\ module.resolution = "ImportError")
    => /\ last.raised = "QuackError"
       /\ last.cause = "ImportError"

\* C15: the list that discover_integrations or load_integration_module
\* returns is exactly what the call added to the table: every returned
\* instance is registered under its own name, the names are pairwise
\* distinct, none was registered before, and nothing else was added.
C15_ReturnedAreTheAdded ==
    (last.op \in {"discover", "load"} /\ last.raised = "none")
    => /\ \A i \in 1..Len(last.ret) :
            /\ hasattr(last.ret[i], "name")
            /\ get_integration(integrations, last.ret[i].name) = last.ret[i]
            /\ ~is_registered(last.before, last.ret[i].name)
       /\ \A i, j \in 1..Len(last.ret) :
            i # j => last.ret[i].name # last.ret[j].name
       /\ Keys(integrations) = Keys(last.before) \cup Keys(last.ret)
       /\ \A n \in Keys(last.before) :
            get_integration(integrations, n) = get_integration(last.before, n)

\* a module load that adds two instances to a table that had one
C15_Witness ==
    /\ last.op = "load"
    /\ last.raised = "none"
    /\ Len(last.before) = 1
    /\ Len(last.ret) = 2
    /\ Len(integrations) = 3

\* ------------------------------------------------------ provider registry
\* key is the lowercase spelling of name
CaseVariant(name, key) ==
    \/ name = key
    \/ <<name, key>> \in {<<"OpenAI", "openai">>, <<"MOCK", "mock">>,
                          <<"TestClient", "testclient">>}

\* the key of the table before the call that the requested name spells
Hit(key) ==
    /\ key \in DOMAIN llm_last.before
    /\ CaseVariant(llm_last.provider, key)

Miss == \A key \in DOMAIN llm_last.before : ~CaseVariant(llm_last.provider, key)

\* C16: provider lookup is case-insensitive: for a registered name written
\* in any case, get_llm_client calls the constructor stored under the
\* lowercase name once with the supplied options, and ends as the call
\* with the lowercase name ends.
C16_LookupIgnoresCase ==
    \A key \in DOMAIN llm_last.before :
        (llm_last.op = "get" /\ Hit(key))
        => LET twin == get_llm_client(llm_last.before, key, llm_last.options)
           IN /\ llm_last.called = <<[ctor |-> llm_last.before[key],
                                      options |-> llm_last.options]>>
              /\ llm_last.called = twin.called
              /\ llm_last.raised = twin.raised
              /\ llm_last.cause = twin.cause
              /\ llm_last.val = twin.val

\* the mock provider asked for in capitals
C16_Witness ==
    /\ llm_last.op = "get"
    /\ llm_last.provider = "MOCK"
    /\ Hit("mock")
    /\ llm_last.raised = "none"
    /\ llm_last.val.cls = llm_last.before["mock"]

\* C17: get_llm_client with a name whose lowercase spelling is no key of
\* the table raises the unsupported-provider error, calls no constructor
\* and leaves the table as it was; the message names the requested
\* provider and the provider names registered at that moment.
C17_MissIsUnsupported ==
    (llm_last.op = "get" /\ Miss)
    => /\ llm_last.raised = "UnsupportedProviderError"
       /\ llm_last.called = <<>>
       /\ llm_registry = llm_last.before
       /\ llm_last.message.provider = llm_last.provider
       /\ llm_last.message.registered = DOMAIN llm_last.before

\* a lookup in the emptied table
C17_Witness ==
    /\ llm_last.op = "get"
    /\ DOMAIN llm_last.before = {}
    /\ llm_last.raised = "UnsupportedProviderError"
    /\ llm_last.message.registered = {}

\* C18: register_llm_client stores the constructor under the lowercase
\* name and never fails on a name that is present: it overwrites, so each
\* key maps to the constructor registered last for any spelling of it.
C18_RegisterOverwrites ==
    \A key \in DOMAIN llm_registry :
        (llm_last.op = "register" /\ CaseVariant(llm_last.provider, key))
        => /\ llm_last.raised = "none"
           /\ llm_registry[key] = llm_last.ctor
           /\ DOMAIN llm_registry = DOMAIN llm_last.before \cup {key}
           /\ \A k \in DOMAIN llm_last.before \ {key} :
                llm_registry[k] = llm_last.before[k]

\* the OpenAI constructor replaced through a capitalised name
C18_Witness ==
    /\ llm_last.op = "register"
    /\ llm_last.provider = "OpenAI"
    /\ "openai" \in DOMAIN llm_last.before
    /\ llm_last.before["openai"] # llm_last.ctor
    /\ llm_registry["openai"] = llm_last.ctor

\* C19: in get_llm_client an exception of the selected constructor is
\* always the provider-construction error with the exception as its
\* cause, a miss is always the unsupported-provider error, and a miss is
\* never reported as a construction error.
C19_MissAndFailureDistinct ==
    llm_last.op = "get"
    => /\ \A key \in DOMAIN llm_last.before :
            LET c == Construct(llm_last.before[key], llm_last.options)
            IN (Hit(key) /\ c.kind = "raise")
               => /\ llm_last.raised = "ProviderConstructionError"
                  /\ llm_last.cause = c.err
       /\ Miss => llm_last.raised = "UnsupportedProviderError"
       /\ llm_last.raised = "ProviderConstructionError" => ~Miss

\* a registered constructor that fails for want of credentials
C19_Witness ==
    /\ llm_last.op = "get"
    /\ ~Miss
    /\ llm_last.raised = "ProviderConstructionError"
    /\ llm_last.cause = "KeyError"
    /\ Len(llm_last.called) = 1

Resolved ==
    get_llm_client(llm_last.before, llm_last.provider, llm_last.options)

\* the three ways initialize() fails
InitializeFails ==
    \/ ~llm_last.base_ok
    \/ llm_last.provider = ExtractionFailed.provider
    \/ Resolved.raised # "none"

\* C21: an initialize() that fails in base initialization, configuration
\* extraction or provider construction returns a failed result with the
\* error text, raises nothing and leaves the service not initialized, even
\* when it was initialized before; an initialize() that succeeds leaves it
\* initialized with the client the provider registry returned.
C21_InitializeOutcome ==
    llm_last.op = "initialize"
    => /\ llm_last.raised = "none"
       /\ InitializeFails
            => /\ ~llm_last.result.success
               /\ llm_last.result.error # ""
               /\ ~service.initialized
       /\ ~InitializeFails
            => /\ llm_last.result.success
               /\ service.initialized
               /\ service.client = Resolved.val

\* a service that was initialized fails to construct its provider
C21_Witness ==
    /\ llm_last.op = "initialize"
    /\ llm_last.was.initialized
    /\ llm_last.base_ok
    /\ Resolved.raised = "ProviderConstructionError"
    /\ ~llm_last.result.success
    /\ ~service.initialized

\* ---------------------------------------------------------------- safe_ops
\* C22: safe_copy and safe_move check their preconditions before touching
\* anything: a src that does not exist raises QuackFileNotFoundError,
\* otherwise a dst that exists with overwrite False raises
\* QuackFileExistsError, and in both cases the file system is unchanged.
C22_PreconditionsFirst ==
    fs_last.op \in {"copy", "move"}
    => /\ fs_args.src \notin DOMAIN fs_last.before
            => /\ fs_last.raised = "QuackFileNotFoundError"
               /\ fs = fs_last.before
       /\ (/\ fs_args.src \in DOMAIN fs_last.before
           /\ fs_args.dst \in DOMAIN fs_last.before
           /\ ~fs_last.overwrite)
            => /\ fs_last.raised = "QuackFileExistsError"
               /\ fs = fs_last.before

\* a move onto an existing directory with content, overwrite False
C22_Witness ==
    /\ fs_last.op = "move"
    /\ ~fs_last.overwrite
    /\ fs_args.src \in DOMAIN fs_last.before
    /\ fs_args.dst = <<"b">>
    /\ <<"b", "a">> \in DOMAIN fs_last.before
    /\ fs_last.raised = "QuackFileExistsError"
    /\ fs = fs_last.before

\* C23: safe_delete of a path that does not exist returns False when
\* missing_ok is True and raises QuackFileNotFoundError when it is False,
\* changing nothing; of a path that exists, file or directory, a call that
\* succeeds returns True and the path no longer exists.
C23_DeleteOutcome ==
    fs_last.op = "delete"
    => /\ fs_args.src \notin DOMAIN fs_last.before
            => /\ fs = fs_last.before
               /\ fs_last.missing_ok
                    => (fs_last.raised = "none" /\ ~fs_last.retb)
               /\ ~fs_last.missing_ok
                    => fs_last.raised = "QuackFileNotFoundError"
       /\ (fs_args.src \in DOMAIN fs_last.before /\ fs_last.raised = "none")
            => /\ fs_last.retb
               /\ fs_args.src \notin DOMAIN fs
               /\ WellFormed(fs)

\* a directory with something in it is deleted
C23_Witness ==
    /\ fs_last.op = "delete"
    /\ fs_last.raised = "none"
    /\ fs_last.retb
    /\ fs_args.src = <<"a">>
    /\ <<"a", "b">> \in DOMAIN fs_last.before
    /\ <<"a">> \notin DOMAIN fs

\* -------------------------------------------------------------- load_config
Nothing == [kind |-> "none"]

\* the node a configuration dict holds at a key path, if any
RECURSIVE At(_, _)
At(items, path) ==
    IF Head(path) \notin DOMAIN items THEN Nothing
    ELSE IF Len(path) = 1 THEN items[Head(path)]
    ELSE IF items[Head(path)].kind = "dict"
    THEN At(items[Head(path)].items, Tail(path))
    ELSE Nothing

\* the key paths of the configurations of the model
KeyPaths ==
    LET sections == {"logging", "custom", "paths", "general"}
        keys == {"level", "extra", "file", "base_dir", "project_name"}
    IN {<<sec>> : sec \in sections}
       \cup {<<sec, k>> : sec \in sections, k \in keys}
       \cup {<<sec, k, "x">> : sec \in sections, k \in keys}

\* the three sources of the call
EnvSource ==
    IF cfg_last.merge_env THEN _get_env_config(environ, EmptyDict).config
    ELSE EmptyDict

FileSource == load_file(config_file).result

DefaultSource ==
    IF cfg_last.merge_defaults THEN DEFAULT_CONFIG_VALUES ELSE EmptyDict

\* the source defines a plain value at the path
HasValue(source, path) == At(source, path).kind = "leaf"

\* the source puts something at the path, or a plain value at a key that
\* encloses it
Blocks(source, path) ==
    \/ At(source, path) # Nothing
    \/ \E n \in 1..(Len(path) - 1) : HasValue(source, SubSeq(path, 1, n))

\* C24 as stated: for every key at any depth the result holds the
\* environment value when the environment defines it, otherwise the file
\* value when the file defines it, otherwise the default value.
C24_PrecedencePerKey ==
    (cfg_last.op = "load_config" /\ cfg_last.raised = "none")
    => \A path \in KeyPaths :
        LET expected ==
                IF HasValue(EnvSource, path) THEN At(EnvSource, path)
                ELSE IF HasValue(FileSource, path) THEN At(FileSource, path)
                ELSE IF HasValue(DefaultSource, path) THEN At(DefaultSource, path)
                ELSE Nothing
        IN expected # Nothing => At(cfg_last.result, path) = expected

\* C24, amended: the value of a lower-priority source is in the result
\* only when no higher-priority source puts anything at its key or a plain
\* value at an enclosing key; sections set by several sources are merged
\* key by key.
C24_PrecedenceUnlessBlocked ==
    (cfg_last.op = "load_config" /\ cfg_last.raised = "none")
    => \A path \in KeyPaths :
        /\ HasValue(EnvSource, path)
            => At(cfg_last.result, path) = At(EnvSource, path)
        /\ (~Blocks(EnvSource, path) /\ HasValue(FileSource, path))
            => At(cfg_last.result, path) = At(FileSource, path)
        /\ (/\ ~Blocks(EnvSource, path)
            /\ ~Blocks(FileSource, path)
            /\ HasValue(DefaultSource, path))
            => At(cfg_last.result, path) = At(DefaultSource, path)

\* one section fed by all three sources
C24_Witness ==
    /\ cfg_last.op = "load_config"
    /\ cfg_last.raised = "none"
    /\ cfg_last.merge_env /\ cfg_last.merge_defaults
    /\ HasValue(FileSource, <<"logging", "level">>)
    /\ At(cfg_last.result, <<"logging", "level">>) = Leaf(Str("WARNING"))
    /\ At(cfg_last.result, <<"logging", "extra">>) = Leaf(Str("DEBUG"))
    /\ At(cfg_last.result, <<"logging", "file">>) = Leaf(Str("logs/quackcore.log"))


\* create_integration is callable and returns a conformant instance
FactoryConformant ==
    /\ module.create.kind = "callable"
    /\ module.create.call.kind = "return"
    /\ Conformant(module.create.call.val)

\* the scan of the module finds at least one instance
ScanFinds == _load_integrations_from_module(module) # <<>>

\* C25 as claimed: in load_integration_module, whenever the plugin loader
\* returns a conformant object the call returns the list of exactly that
\* object and runs no further strategy.
C25_PluginResultEndsTheCall ==
    (last.op = "load" /\ PluginConformant)
    => /\ last.ret = <<module.plugin.val>>
       /\ last.raised = "none"
       /\ last.steps = {"plugin"}

\* C25 amended: in load_integration_module, whenever the plugin loader
\* returns a conformant object whose name is not yet registered, the call
\* registers it, returns the list of exactly that object and runs no
\* further strategy: no module resolution, no create_integration, no scan.
C25_FreshPluginResultEndsTheCall ==
    (/\ last.op = "load"
     /\ PluginConformant
     /\ module.plugin.val.name \notin Keys(last.before))
    => /\ last.ret = <<module.plugin.val>>
       /\ last.raised = "none"
       /\ last.steps = {"plugin"}
       /\ integrations = Append(last.before, module.plugin.val)

\* the plugin loader's object was taken although the module itself holds a
\* factory or a class that a later strategy would have accepted
C25_Witness ==
    /\ last.op = "load"
    /\ PluginConformant
    /\ module.plugin.val.name \notin Keys(last.before)
    /\ Resolves(module)
    /\ FactoryConformant
    /\ ScanFinds
    /\ last.ret = <<module.plugin.val>>
    /\ last.steps = {"plugin"}


\* the call got as far as resolving the module, and the module resolved
ModuleResolved == "resolve" \in last.steps /\ Resolves(module)

\* C26 as claimed: in load_integration_module, whenever the resolved module
\* has a callable create_integration that returns a conformant instance,
\* the call returns the list of exactly that instance and never runs the
\* class scan.
C26_FactoryResultEndsTheCall ==
    (last.op = "load" /\ ModuleResolved /\ FactoryConformant)
    => /\ last.ret = <<module.create.call.val>>
       /\ last.raised = "none"
       /\ "scan" \notin last.steps

\* C26 amended: in load_integration_module, whenever the resolved module
\* has a callable create_integration that returns a conformant instance
\* whose name is not yet registered, the call registers it, returns the
\* list of exactly that instance and never runs the class scan.
C26_FreshFactoryResultEndsTheCall ==
    (/\ last.op = "load"
     /\ ModuleResolved
     /\ FactoryConformant
     /\ module.create.call.val.name \notin Keys(last.before))
    => /\ last.ret = <<module.create.call.val>>
       /\ last.raised = "none"
       /\ "scan" \notin last.steps
       /\ integrations = Append(last.before, module.create.call.val)

\* the factory's instance was taken although the scan would have found a
\* class of the module
C26_Witness ==
    /\ last.op = "load"
    /\ ModuleResolved
    /\ FactoryConformant
    /\ module.create.call.val.name \notin Keys(last.before)
    /\ ScanFinds
    /\ last.ret = <<module.create.call.val>>
    /\ "factory" \in last.steps
    /\ "scan" \notin last.steps


\* the plugin loader is there and, asked for the i-th descriptor, raises or
\* returns an object that is not conformant
PluginLoaderFailed(i) ==
    /\ plugin_loader
    /\ \/ entry_points[i].plugin.kind = "raise"
       \/ ~Conformant(entry_points[i].plugin.val)

\* the i-th descriptor's own load() gives a callable that returns a
\* conformant instance
OwnFactoryConformant(i) ==
    /\ entry_points[i].load = "callable"
    /\ entry_points[i].factory.kind = "return"
    /\ Conformant(entry_points[i].factory.val)

\* C27: in discover_integrations, a descriptor for which the plugin loader
\* raised any error or returned a non-conformant object falls back to its
\* own load(): when its own factory yields a conformant instance, the
\* instance's name is registered, and the instance itself unless its name
\* was taken before the descriptor was reached.
C27_FallsBackAfterAnyPluginFailure ==
    last.op = "discover"
    => \A i \in 1..Len(entry_points) :
           (PluginLoaderFailed(i) /\ OwnFactoryConformant(i))
           => /\ entry_points[i].factory.val.name \in Keys(integrations)
              /\ (/\ entry_points[i].factory.val.name \notin Keys(last.before)
                  /\ \A j \in 1..(i - 1) :
                         Yield(j).name # entry_points[i].factory.val.name)
                 => Lookup(integrations, entry_points[i].factory.val.name)
                        = entry_points[i].factory.val


\* instance o comes from a public class that is defined in the scanned
\* module and is not the IntegrationProtocol type
FromLocalClass(o) ==
    \E i \in 1..Len(module.attrs) :
        /\ module.attrs[i].kind = "class"
        /\ module.attrs[i].local
        /\ ~module.attrs[i].is_protocol
        /\ module.attrs[i].ctor = Return(o)

\* instance o comes from the class bound as TestIntegration
FromTestIntegration(o) ==
    module.test.kind = "class" /\ module.test.ctor = Return(o)

Candidate(i) ==
    /\ module.attrs[i].kind = "class"
    /\ module.attrs[i].local
    /\ ~module.attrs[i].is_protocol

\* the i-th candidate is noisy: its construction raises, its instance is
\* not conformant, or its instance's name was registered before the call
Noisy(i) ==
    \/ module.attrs[i].ctor.kind = "raise"
    \/ ~Conformant(Instance(i))
    \/ Instance(i).name \in Keys(last.before)

\* C29: in the class scan of load_integration_module, a candidate class
\* whose construction raises, whose instance is not conformant or whose
\* name is already registered is skipped without raising: the call raises
\* nothing, the candidate adds nothing to the list or the table, and every
\* other conformant class of the module is still registered and returned.
C29_NoisyCandidateSkipped ==
    (last.op = "load" /\ "scan" \in last.steps)
    => /\ last.raised = "none"
       /\ \A i \in 1..Len(module.attrs) :
              (Candidate(i) /\ Noisy(i))
              => /\ module.attrs[i].ctor.kind = "return"
                    => \/ Instance(i) \notin Elems(last.ret)
                       \/ FromTestIntegration(Instance(i))
                 /\ Instance(i).name \in Keys(last.before)
                    => Lookup(integrations, Instance(i).name)
                           = Lookup(last.before, Instance(i).name)
                 /\ \A j \in 1..Len(module.attrs) :
                        (j # i /\ LocalConformant(j) /\ FreshAt(j))
                        => /\ Instance(j) \in Elems(last.ret)
                           /\ Lookup(integrations, Instance(j).name) = Instance(j)

\* a class whose construction raises is followed by a conformant class that
\* is registered and returned
C29_Witness ==
    /\ last.op = "load"
    /\ "scan" \in last.steps
    /\ Len(module.attrs) = 2
    /\ module.attrs[1] = MkAttr("class", TRUE, FALSE, Raise("TypeError"))
    /\ LocalConformant(2)
    /\ last.raised = "none"
    /\ last.ret = <<Instance(2)>>
    /\ Lookup(integrations, Instance(2).name) = Instance(2)


\* both threads have returned from register calls that overlapped: each
\* passed the membership test for the same name before the other stored
BothReturnedOverlapped ==
    /\ \A t \in ThreadIds : threads[t].pc = "returned" /\ threads[t].overlap
    /\ threads[1].integration.name = threads[2].integration.name

\* C30: register tests membership and inserts in two steps: when two
\* register calls for one name from two threads both pass the test before
\* either inserts, both return without a duplicate error, and the table
\* holds one entry of that name, the instance that was inserted last.
C30_OverlapKeepsLastInsertion ==
    BothReturnedOverlapped
    => /\ \A t \in ThreadIds : threads[t].raised = "none"
       /\ Len(stores) >= 2
       /\ Elems(SubSeq(stores, Len(stores) - 1, Len(stores)))
              = {threads[1].integration, threads[2].integration}
       /\ Cardinality({i \in 1..Len(integrations) :
                          integrations[i].name = threads[1].integration.name}) = 1
       /\ Lookup(integrations, threads[1].integration.name) = stores[Len(stores)]

\* two threads registered two different instances named "a", neither got
\* the duplicate error, and the table holds the one of the second insertion
C30_Witness ==
    /\ BothReturnedOverlapped
    /\ threads[1].integration = RegA
    /\ threads[2].integration = GoodA1
    /\ threads[1].raised = "none"
    /\ threads[2].raised = "none"
    /\ stores = <<RegA, GoodA1>>
    /\ integrations = <<GoodA1>>


\* the table of the last call's start, in its order, opens the table
BeforeKept ==
    /\ Len(integrations) >= Len(last.before)
    /\ SubSeq(integrations, 1, Len(last.before)) = last.before

\* C31: a register, discover_integrations, load_integration_module,
\* get_integration, get_integration_by_type (with its generator run to the
\* end), list_integrations or is_registered call, whether it succeeds or fails,
\* leaves every entry of the table in place with the same instance; an
\* unregister call removes the named entry and no other.
C31_OnlyUnregisterRemoves ==
    /\ last.op \in {"register", "discover", "load", "get", "get_by_type",
                    "list", "is_registered"}
         => BeforeKept
    /\ last.op = "unregister"
         => integrations = SelectSeq(last.before, LAMBDA o : o.name # last.name)

\* a discover call that met a registered name and added an entry of
\* another name to a table of one entry
C31_Witness ==
    /\ last.op = "discover"
    /\ Len(last.before) = 1
    /\ \E i \in 1..Len(entry_points) :
           Yield(i) # None /\ Yield(i).name \in Keys(last.before)
    /\ Len(integrations) = 2
    /\ integrations[1] = last.before[1]


\* what file system f holds at path p and below it, by relative path
Tree(f, p) ==
    {<<SubSeq(q, Len(p) + 1, Len(q)), f[q]>> : q \in {r \in DOMAIN f : Under(r, p)}}

\* neither of src and dst is the other or lies below it
Apart ==
    ~Under(fs_args.dst, fs_args.src) /\ ~Under(fs_args.src, fs_args.dst)

\* C32: after safe_copy(src, dst, overwrite=True) returns, for a src and a
\* dst that lie apart, the returned path is dst, dst holds a copy of src
\* and nothing of what it held before, whether src and dst are files or
\* directories, and src is as it was.
C32_OverwriteLeavesACopy ==
    (/\ fs_last.op = "copy"
     /\ fs_last.overwrite
     /\ fs_last.raised = "none"
     /\ Apart)
    => /\ fs_last.ret = fs_args.dst
       /\ Tree(fs, fs_args.dst) = Tree(fs_last.before, fs_args.src)
       /\ Tree(fs, fs_args.src) = Tree(fs_last.before, fs_args.src)


\* the key path of the i-th variable of the environment
KeyPath(i) == [k \in 1..Len(environ[i].parts) |-> lower_part(environ[i].parts[k])]

\* the i-th variable is one that _get_env_config places: its name starts
\* with QUACK_ and has a "__" separator
Placed(i) == environ[i].quack /\ Len(environ[i].parts) >= 2

\* the key paths of variables i and j are equal or one opens the other
Overlapping(i, j) == Under(KeyPath(i), KeyPath(j)) \/ Under(KeyPath(j), KeyPath(i))

\* C33: _get_env_config returns without error for every environment in
\* every iteration order, also when the key path of one variable opens the
\* key path of another; variables without the prefix or without a
\* separator leave no key, and a variable whose key path overlaps with no
\* other is found at that path with its converted value.
C33_EnvConfigNeverFails ==
    (cfg_last.op = "load_config" /\ cfg_last.merge_env)
    => LET r == _get_env_config(environ, EmptyDict)
       IN /\ r.err = "none"
          /\ load_file(config_file).raised = "none"
                => cfg_last.raised \notin {"TypeError", "AttributeError"}
          /\ DOMAIN r.config
                 = {KeyPath(i)[1] : i \in {j \in 1..Len(environ) : Placed(j)}}
          /\ \A i \in 1..Len(environ) :
                 (/\ Placed(i)
                  /\ \A j \in 1..Len(environ) :
                         (j # i /\ Placed(j)) => ~Overlapping(i, j))
                 => At(r.config, KeyPath(i))
                        = Leaf(_convert_env_value(environ[i].value))

====
